---- MODULE Spec2Model ----
(***************************************************************************)
(* Traffic-signal simulator: the per-tick update (updateSimulation), the   *)
(* three signal controllers (FixedTimingController, AdaptiveController,    *)
(* ReinforcementLearningController), vehicle kinematics, spawning and      *)
(* statistics, as implemented in lib/simulation/simulator.ts, and the      *)
(* Q-table of qlearning.ts with its save and load.                         *)
(*                                                                         *)
(* Units.  Time, timers and positions are integers (seconds, pixels).      *)
(* Quantities the code keeps as fractions are kept in thousandths:         *)
(* traffic densities, spawnRate, random draws in [0,1), averageWaitTime,   *)
(* throughput, rewards and Q-values.  Comparisons between such quantities  *)
(* are cross-multiplied so that they are exact on the thousandths.         *)
(***************************************************************************)
EXTENDS Integers, Sequences, FiniteSets, TLC

VARIABLES
    vehicles,        \* SimulationState.vehicles: sequence of vehicle records
    trafficLights,   \* SimulationState.trafficLights: north, south, east, west
    time,            \* SimulationState.time
    statistics,      \* SimulationState.statistics
    config,          \* SimulationState.config (spawnRate, simulationSpeed, aiController, aiParams)
    adaptive,        \* fields of the AdaptiveController the next update starts from
    rl,              \* fields of the ReinforcementLearningController the next update starts from
    Q,               \* qlearning.ts: the global Q-table
    localStorage     \* qlearning.ts: the item 'qTable' of localStorage

vars == <<vehicles, trafficLights, time, statistics, config, adaptive, rl,
          Q, localStorage>>

----------------------------------------------------------------------------
(* Bounds of the model *)

\* Spec: ticks are taken while time is below this bound
MaxSimTime == 3

\* Spec: statistics.totalVehicles never exceeds this bound
MaxSpawn == 2

\* SpecFixed: ticks are taken while time is below this bound (two cycles)
MaxTime == 110

\* SpecFixed: bound on statistics.totalVehicles (an empty world)
MaxSpawnFixed == 0

\* SpecChange: ticks are taken while time is below this bound
MaxChangeTime == 24

\* SpecChange: bound on statistics.totalVehicles (an empty world)
MaxSpawnChange == 0

\* SpecStarve: ticks are taken while time is below this bound
MaxStarveTime == 30

\* SpecStarve: bound on statistics.totalVehicles
MaxSpawnStarve == 1

\* SpecAdaptive: updates are taken while time is below this bound
MaxInstTime == 8

\* SpecTraffic: ticks are taken while time is below this bound (five ticks)
MaxTrafficTime == 13

\* SpecTraffic: bound on statistics.totalVehicles
MaxSpawnTraffic == 2

\* SpecLong: ticks are taken while time is below this bound (nine ticks, up
\* to the second phase change of the fixed schedule)
MaxLongTime == 25

\* SpecLong: bound on statistics.totalVehicles
MaxSpawnLong == 1

\* SpecFollow: ticks are taken while time is below this bound
MaxFollowTime == 4

\* SpecFollow: bound on statistics.totalVehicles
MaxSpawnFollow == 2

\* SpecSpawn: ticks are taken while time is below this bound
MaxSpawnTime == 2

\* SpecRL: end of the clock, in seconds
MaxRLTime == 5

\* SpecReplay: end of the clock, in seconds
MaxReplayTime == 520

\* SpecReplay: vehicles and exploring draws vary before this time, in seconds
MaxReplayVaried == 10

\* SpecHistory: end of the clock, in seconds
MaxHistoryTime == 13

\* SpecThreshold: end of the clock, in seconds
MaxThresholdTime == 5

\* SpecQTable: updateQTable is called while the value it writes stays within
\* this magnitude, in thousandths
MaxQMagnitude == 100

\* SpecQueue: end of the clock, in seconds
MaxQueueTime == 26

\* SpecQueue: vehicles spawned at most
MaxSpawnQueue == 2

\* SpecIdle: end of the clock, in seconds
MaxIdleTime == 3

\* SpecIdle: vehicles spawned at most
MaxSpawnIdle == 2

\* SpecCoherence: end of the clock, in seconds
MaxCoherenceTime == 3

\* SpecCoherence: vehicles spawned at most
MaxSpawnCoherence == 1

\* SpecSkip: end of the clock, in seconds
MaxSkipTime == 12

\* SpecSkip: vehicles spawned at most
MaxSpawnSkip == 2

----------------------------------------------------------------------------
(* Program constants *)

greenDuration == 20
yellowDuration == 5
adaptiveMinGreenTime == 3
adaptiveMaxWaitTime == 20
maxHistoryLength == 10
maxMemorySize == 100
batchUpdateSize == 10
WorldWidth == 600
WorldHeight == 400
CenterX == 300
CenterY == 200
maxDistance == 200

Directions == <<"north", "south", "east", "west">>
Controllers == {"fixed", "adaptive", "reinforcement"}
VehicleTypes == {"car", "truck"}
Lanes == {"left", "right"}

isNorthSouth(d) == d \in {"north", "south"}
isEastWest(d) == d \in {"east", "west"}

Min(a, b) == IF a < b THEN a ELSE b
Max(a, b) == IF a > b THEN a ELSE b

----------------------------------------------------------------------------
(* Lights *)

\* some light of the north-south axis is green
nsGreen(lights) ==
    \E i \in 1..Len(lights) :
        isNorthSouth(lights[i].direction) /\ lights[i].state = "green"

\* some light of the east-west axis is green
ewGreen(lights) ==
    \E i \in 1..Len(lights) :
        isEastWest(lights[i].direction) /\ lights[i].state = "green"

anyGreen(lights) == \E i \in 1..Len(lights) : lights[i].state = "green"

InitialLights ==
    << [direction |-> "north", state |-> "red",   timer |-> 0],
       [direction |-> "south", state |-> "red",   timer |-> 0],
       [direction |-> "east",  state |-> "green", timer |-> 0],
       [direction |-> "west",  state |-> "green", timer |-> 0] >>

\* ForceGreen turning green only the north light or only the east light
ForceGreenOneLight(lights, ax) ==
    [i \in 1..Len(lights) |->
        IF (ax = "ns" /\ lights[i].direction = "north")
           \/ (ax = "ew" /\ lights[i].direction = "east")
        THEN [lights[i] EXCEPT !.state = "green", !.timer = 0]
        ELSE lights[i]]

\* lights with the axis ax ("ns" or "ew") set to green, timer 0
ForceGreen(lights, ax) ==
    [i \in 1..Len(lights) |->
        IF (ax = "ns" /\ isNorthSouth(lights[i].direction))
           \/ (ax = "ew" /\ isEastWest(lights[i].direction))
        THEN [lights[i] EXCEPT !.state = "green", !.timer = 0]
        ELSE lights[i]]

----------------------------------------------------------------------------
(* Traffic density *)

ZeroDensity == [north |-> 0, south |-> 0, east |-> 0, west |-> 0]

\* FixedTimingController.calculateTrafficDensity: one per vehicle (thousandths)
RECURSIVE calculateTrafficDensity(_)
calculateTrafficDensity(vs) ==
    IF vs = <<>> THEN ZeroDensity
    ELSE LET d == calculateTrafficDensity(Tail(vs))
             v == Head(vs)
         IN [d EXCEPT ![v.direction] = @ + 1000]

\* 1000 * exp(-0.008 * distance), tabulated every 20 pixels of distance
ExpTable == <<1000, 852, 726, 619, 527, 449, 383, 326, 278, 237, 202>>

\* weight of a vehicle at squared distance d2 from the centre (thousandths)
Weight(d2) ==
    IF d2 <= maxDistance * maxDistance
    THEN LET k == CHOOSE j \in 0..10 :
                      /\ (20 * j) * (20 * j) <= d2
                      /\ (j = 10 \/ d2 < (20 * (j + 1)) * (20 * (j + 1)))
         IN ExpTable[k + 1]
    ELSE 200

\* calculateWeightedTrafficDensity (AdaptiveController and RL controller)
RECURSIVE calculateWeightedTrafficDensity(_)
calculateWeightedTrafficDensity(vs) ==
    IF vs = <<>> THEN ZeroDensity
    ELSE LET d == calculateWeightedTrafficDensity(Tail(vs))
             v == Head(vs)
             dx == v.x - CenterX
             dy == v.y - CenterY
         IN [d EXCEPT ![v.direction] = @ + Weight(dx * dx + dy * dy)]

----------------------------------------------------------------------------
(* FixedTimingController *)

\* FixedLightState with every phase boundary taken one second late
FixedLightStateLate(dir, t) ==
    LET totalCycleDuration == (greenDuration + yellowDuration) * 2
        m == t % totalCycleDuration
    IN IF isNorthSouth(dir)
       THEN IF m <= greenDuration THEN "green"
            ELSE IF m <= greenDuration + yellowDuration THEN "yellow"
            ELSE "red"
       ELSE IF m <= greenDuration + yellowDuration THEN "red"
            ELSE IF m <= 2 * greenDuration + yellowDuration THEN "green"
            ELSE "yellow"

\* state of a light of direction dir whose timer (after the increment) is t
FixedLightState(dir, t) ==
    LET totalCycleDuration == (greenDuration + yellowDuration) * 2
        m == t % totalCycleDuration
    IN IF isNorthSouth(dir)
       THEN IF m < greenDuration THEN "green"
            ELSE IF m < greenDuration + yellowDuration THEN "yellow"
            ELSE "red"
       ELSE IF m < greenDuration THEN "red"
            ELSE IF m < greenDuration + yellowDuration THEN "red"
            ELSE IF m < 2 * greenDuration + yellowDuration THEN "green"
            ELSE "yellow"

\* FixedTimingController.update: the lights and the density it writes
FixedUpdate(lights, vs, deltaTime) ==
    [lights  |-> [i \in 1..Len(lights) |->
                    [lights[i] EXCEPT
                        !.timer = lights[i].timer + deltaTime,
                        !.state = FixedLightState(lights[i].direction,
                                                  lights[i].timer + deltaTime)]],
     density |-> calculateTrafficDensity(vs)]

----------------------------------------------------------------------------
(* AdaptiveController *)

\* fields of a newly constructed AdaptiveController
NewAdaptive ==
    [trafficHistory   |-> [ns |-> <<>>, ew |-> <<>>],
     currentDirection |-> "ns",
     switchTimer      |-> 0,
     lastSwitchTime   |-> 0,
     currentPhase     |-> "green"]

\* entries of h that are younger than 10 seconds at time now
RECURSIVE FilterRecent(_, _)
FilterRecent(h, now) ==
    IF h = <<>> THEN <<>>
    ELSE IF now - Head(h).timestamp < 10
         THEN <<Head(h)>> \o FilterRecent(Tail(h), now)
         ELSE FilterRecent(Tail(h), now)

\* Array.slice(-n): the last n entries
LastN(h, n) == IF Len(h) <= n THEN h ELSE SubSeq(h, Len(h) - n + 1, Len(h))

\* PushHistory keeping the first maxHistoryLength entries instead of the last
PushHistoryKeepsOldest(h, count, now) ==
    LET filtered == FilterRecent(Append(h, [count |-> count, timestamp |-> now]), now)
    IN SubSeq(filtered, 1, Min(Len(filtered), maxHistoryLength))

\* push of the current count, then filter and slice (lines 110-120)
PushHistory(h, count, now) ==
    LastN(FilterRecent(Append(h, [count |-> count, timestamp |-> now]), now),
          maxHistoryLength)

\* calculateTrafficMetrics: the normalized trend of h exceeds 0.5.
\* n is the length of the ns history, which guards both trends.
TrendAboveHalf(h, n) ==
    /\ n >= 3
    /\ Len(h) >= 3
    /\ LET recent == LastN(h, 3)
           oldSum == recent[1].count + recent[2].count   \* 2 * oldAvg
           newAvg == recent[3].count
       IN IF oldSum = 0 THEN newAvg > 500
          ELSE 4 * newAvg > 3 * oldSum

\* AdaptiveDecision without the minimum-green-time condition on a switch by demand
AdaptiveDecisionNoMinGreen(inst, lights, northSouthCount, eastWestCount, trendNS, trendEW) ==
    LET nsG == nsGreen(lights)
        ewG == ewGreen(lights)
        byDemandEW == /\ inst.currentPhase = "green"
                      /\ nsG
                      /\ (2 * eastWestCount > 3 * northSouthCount \/ trendEW)
        byDemandNS == /\ inst.currentPhase = "green"
                      /\ ~nsG /\ ewG
                      /\ (2 * northSouthCount > 3 * eastWestCount \/ trendNS)
        forcedNS == /\ inst.currentPhase = "green"
                    /\ ewG
                    /\ inst.lastSwitchTime > adaptiveMaxWaitTime
                    /\ northSouthCount > 0
        forcedEW == /\ inst.currentPhase = "green"
                    /\ ~forcedNS
                    /\ nsG
                    /\ inst.lastSwitchTime > adaptiveMaxWaitTime
                    /\ eastWestCount > 0
        toNS == byDemandNS \/ forcedNS
        toEW == byDemandEW \/ forcedEW
    IN [shouldSwitchToNS |-> toNS,
        shouldSwitchToEW |-> toEW,
        currentPhase     |-> IF toNS \/ toEW THEN "yellow" ELSE inst.currentPhase]

\* the switch decision of lines 137-164: the two flags and the phase
AdaptiveDecision(inst, lights, northSouthCount, eastWestCount, trendNS, trendEW) ==
    LET nsG == nsGreen(lights)
        ewG == ewGreen(lights)
        byDemandEW == /\ inst.currentPhase = "green"
                      /\ nsG
                      /\ (2 * eastWestCount > 3 * northSouthCount \/ trendEW)
                      /\ inst.switchTimer >= adaptiveMinGreenTime
        byDemandNS == /\ inst.currentPhase = "green"
                      /\ ~nsG /\ ewG
                      /\ (2 * northSouthCount > 3 * eastWestCount \/ trendNS)
                      /\ inst.switchTimer >= adaptiveMinGreenTime
        forcedNS == /\ inst.currentPhase = "green"
                    /\ ewG
                    /\ inst.lastSwitchTime > adaptiveMaxWaitTime
                    /\ northSouthCount > 0
        forcedEW == /\ inst.currentPhase = "green"
                    /\ ~forcedNS
                    /\ nsG
                    /\ inst.lastSwitchTime > adaptiveMaxWaitTime
                    /\ eastWestCount > 0
        toNS == byDemandNS \/ forcedNS
        toEW == byDemandEW \/ forcedEW
    IN [shouldSwitchToNS |-> toNS,
        shouldSwitchToEW |-> toEW,
        currentPhase     |-> IF toNS \/ toEW THEN "yellow" ELSE inst.currentPhase]

\* one light of the map of lines 167-223; acc carries the lights built so far
\* and the instance fields the callback assigns
AdaptiveLight(acc, light, toNS, toEW, deltaTime) ==
    LET t == light.timer + deltaTime
        releasing == IF isNorthSouth(light.direction) THEN toEW ELSE toNS
        receiving == IF isNorthSouth(light.direction) THEN toNS ELSE toEW
        i == acc.inst
    IN IF releasing /\ light.state = "green"
       THEN [lights |-> Append(acc.lights,
                               [light EXCEPT !.state = "yellow", !.timer = 0]),
             inst   |-> [i EXCEPT !.switchTimer = 0]]
       ELSE IF light.state = "yellow" /\ t >= yellowDuration
       THEN [lights |-> Append(acc.lights,
                               [light EXCEPT !.state = "red", !.timer = 0]),
             inst   |-> IF i.currentPhase = "yellow"
                        THEN [i EXCEPT !.currentPhase = "red-transition"]
                        ELSE i]
       ELSE IF receiving /\ light.state = "red"
       THEN [lights |-> Append(acc.lights,
                               [light EXCEPT !.state = "green", !.timer = 0]),
             inst   |-> [i EXCEPT !.lastSwitchTime = 0,
                                  !.switchTimer = 0,
                                  !.currentPhase = "green"]]
       ELSE [lights |-> Append(acc.lights, [light EXCEPT !.timer = t]),
             inst   |-> i]

\* the map over the lights, in array order
RECURSIVE AdaptiveLights(_, _, _, _, _)
AdaptiveLights(acc, rest, toNS, toEW, deltaTime) ==
    IF rest = <<>> THEN acc
    ELSE AdaptiveLights(AdaptiveLight(acc, Head(rest), toNS, toEW, deltaTime),
                        Tail(rest), toNS, toEW, deltaTime)

\* lines 225-251: all yellows have turned red in the red-transition phase
AdaptiveComplete(r, northSouthCount, eastWestCount) ==
    IF /\ r.inst.currentPhase = "red-transition"
       /\ \A k \in 1..Len(r.lights) : r.lights[k].state /= "yellow"
    THEN LET directionToGreen ==
                 IF northSouthCount >= eastWestCount THEN "ns" ELSE "ew"
         IN [lights |-> ForceGreen(r.lights, directionToGreen),
             inst   |-> [r.inst EXCEPT !.lastSwitchTime = 0,
                                       !.switchTimer = 0,
                                       !.currentDirection = directionToGreen,
                                       !.currentPhase = "green"]]
    ELSE r

\* lines 253-275: no light is green although the phase is green
AdaptiveFallback(r, northSouthCount, eastWestCount) ==
    IF ~anyGreen(r.lights) /\ r.inst.currentPhase = "green"
    THEN LET directionToGreen ==
                 IF northSouthCount >= eastWestCount THEN "ns" ELSE "ew"
         IN [lights |-> ForceGreen(r.lights, directionToGreen),
             inst   |-> [r.inst EXCEPT !.lastSwitchTime = 0,
                                       !.switchTimer = 0,
                                       !.currentDirection = directionToGreen]]
    ELSE r

\* AdaptiveController.update on the instance inst
AdaptiveUpdate(inst, lights, vs, now, deltaTime) ==
    LET trafficDensity == calculateWeightedTrafficDensity(vs)
        northSouthCount == trafficDensity.north + trafficDensity.south
        eastWestCount == trafficDensity.east + trafficDensity.west
        hist == [ns |-> PushHistory(inst.trafficHistory.ns, northSouthCount, now),
                 ew |-> PushHistory(inst.trafficHistory.ew, eastWestCount, now)]
        trendNS == TrendAboveHalf(hist.ns, Len(hist.ns))
        trendEW == TrendAboveHalf(hist.ew, Len(hist.ns))
        timed == [inst EXCEPT !.trafficHistory = hist,
                              !.switchTimer = @ + deltaTime,
                              !.lastSwitchTime = @ + deltaTime]
        dec == AdaptiveDecision(timed, lights, northSouthCount, eastWestCount,
                                trendNS, trendEW)
        decided == [timed EXCEPT !.currentPhase = dec.currentPhase]
        mapped == AdaptiveLights([lights |-> <<>>, inst |-> decided], lights,
                                 dec.shouldSwitchToNS, dec.shouldSwitchToEW,
                                 deltaTime)
        done == AdaptiveFallback(
                    AdaptiveComplete(mapped, northSouthCount, eastWestCount),
                    northSouthCount, eastWestCount)
    IN [lights |-> done.lights, density |-> trafficDensity, inst |-> done.inst]

----------------------------------------------------------------------------
(* ReinforcementLearningController *)

\* fields of a newly constructed ReinforcementLearningController.
\* lastStateKey is <<>> for the empty string, qValues is the empty table.
\* rewardHistory is written and never read; it is left out.
NewRL ==
    [lastStateKey  |-> <<>>,
     lastAction    |-> "",
     qValues       |-> <<>>,
     stateHistory  |-> <<>>,
     updateCounter |-> 0]

discretizeTraffic(count) ==
    IF 2 * count < 3000 THEN "low"
    ELSE IF count < 4000 THEN "medium"
    ELSE "high"

discretizeTime(t) ==
    IF t < 5 THEN "short"
    ELSE IF t < 15 THEN "medium"
    ELSE "long"

RECURSIVE MaxTimer(_)
MaxTimer(lights) ==
    IF lights = <<>> THEN 0
    ELSE Max(Head(lights).timer, MaxTimer(Tail(lights)))

\* getCurrentState: the key <<nsLevel, ewLevel, currentPhase, phaseDuration>>
getCurrentState(lights, vs) ==
    LET trafficDensity == calculateWeightedTrafficDensity(vs)
    IN << discretizeTraffic(trafficDensity.north + trafficDensity.south),
          discretizeTraffic(trafficDensity.east + trafficDensity.west),
          IF nsGreen(lights) THEN "ns" ELSE "ew",
          discretizeTime(MaxTimer(lights)) >>

getAvailableActions(lights) ==
    IF nsGreen(lights)
    THEN <<"maintain_ns", "extend_ns", "switch_to_ew">>
    ELSE <<"maintain_ew", "extend_ew", "switch_to_ns">>

\* qValues[stateKey][action] || 0
QValue(q, stateKey, action) ==
    IF stateKey \in DOMAIN q /\ action \in DOMAIN q[stateKey]
    THEN q[stateKey][action]
    ELSE 0

\* the table with q[stateKey][action] set to value
QSet(q, stateKey, action, value) ==
    LET row == IF stateKey \in DOMAIN q THEN q[stateKey] ELSE <<>>
        newRow == [a \in DOMAIN row \cup {action} |->
                      IF a = action THEN value ELSE row[a]]
    IN [k \in DOMAIN q \cup {stateKey} |->
           IF k = stateKey THEN newRow ELSE q[k]]

\* lines 422-428: a state seen for the first time gets 0 for every action
InitQValues(q, stateKey, availableActions) ==
    IF stateKey \in DOMAIN q THEN q
    ELSE [k \in DOMAIN q \cup {stateKey} |->
             IF k = stateKey
             THEN [a \in {availableActions[j] : j \in 1..Len(availableActions)} |-> 0]
             ELSE q[k]]

\* effectiveExplorationRate without the floor of 0.05
effectiveExplorationRateNoFloor(now) == 2000 - 4 * now

\* line 432: max(0.05, explorationRate * (1 - time / 500)) with explorationRate
\* 0.2, in ten-thousandths
effectiveExplorationRate(now) == Max(500, 2000 - 4 * now)

\* line 434: Math.random() < effectiveExplorationRate, the draw u in thousandths
Explores(u, now) == 10 * u < effectiveExplorationRate(now)

\* the exploit branch: the first action with the highest Q-value
RECURSIVE BestAction(_, _, _, _, _)
BestAction(q, stateKey, availableActions, j, best) ==
    IF j > Len(availableActions) THEN best
    ELSE BestAction(q, stateKey, availableActions, j + 1,
                    IF QValue(q, stateKey, availableActions[j])
                          > QValue(q, stateKey, best)
                    THEN availableActions[j] ELSE best)

\* selectAction with the exploit branch scanning the actions from the last to
\* the first: among equal highest Q-values the last action wins
selectActionLastBest(q, stateKey, availableActions, now, u, r) ==
    LET n == Len(availableActions)
        reversed == [j \in 1..n |-> availableActions[n + 1 - j]]
    IN IF Explores(u, now)
       THEN availableActions[((r * n) \div 1000) + 1]
       ELSE BestAction(q, stateKey, reversed, 1, reversed[1])

\* selectAction, given the table after InitQValues and the two draws u and r
selectAction(q, stateKey, availableActions, now, u, r) ==
    IF Explores(u, now)
    THEN availableActions[((r * Len(availableActions)) \div 1000) + 1]
    ELSE BestAction(q, stateKey, availableActions, 1, availableActions[1])

\* applyAction: the lights after the selected action
applyAction(lights, action) ==
    IF action \in {"maintain_ns", "maintain_ew"} THEN lights
    ELSE IF action \in {"extend_ns", "extend_ew"}
    THEN [i \in 1..Len(lights) |->
            IF lights[i].state = "green"
            THEN [lights[i] EXCEPT !.timer = Min(lights[i].timer, 2)]
            ELSE lights[i]]
    ELSE IF action = "switch_to_ew" /\ nsGreen(lights)
    THEN [i \in 1..Len(lights) |->
            IF isNorthSouth(lights[i].direction) /\ lights[i].state = "green"
            THEN [lights[i] EXCEPT !.state = "yellow", !.timer = 0]
            ELSE lights[i]]
    ELSE IF action = "switch_to_ns" /\ ewGreen(lights)
    THEN [i \in 1..Len(lights) |->
            IF isEastWest(lights[i].direction) /\ lights[i].state = "green"
            THEN [lights[i] EXCEPT !.state = "yellow", !.timer = 0]
            ELSE lights[i]]
    ELSE lights

\* integer square root, by bisection on lo..hi
RECURSIVE SqrtIn(_, _, _)
SqrtIn(n, lo, hi) ==
    IF lo >= hi THEN lo
    ELSE LET mid == (lo + hi + 1) \div 2
         IN IF mid * mid <= n THEN SqrtIn(n, mid, hi) ELSE SqrtIn(n, lo, mid - 1)

ISqrt(n) == SqrtIn(n, 0, n)

RECURSIVE NearbyVehicles(_)
NearbyVehicles(vs) ==
    IF vs = <<>> THEN 0
    ELSE LET dx == Head(vs).x - CenterX
             dy == Head(vs).y - CenterY
         IN (IF dx * dx + dy * dy < 10000 THEN 1 ELSE 0) + NearbyVehicles(Tail(vs))

\* calculateReward (thousandths):
\* throughput*2 - averageWaitTime*0.8 - nearbyVehicles*0.5 - averageWaitTime^1.5*0.02
calculateReward(stats, vs) ==
    2 * stats.throughput
    - ((8 * stats.averageWaitTime) \div 10)
    - 500 * NearbyVehicles(vs)
    - ((stats.averageWaitTime * ISqrt(stats.averageWaitTime * 1000)) \div 50000)

RECURSIVE MaxOfRow(_, _)
MaxOfRow(row, as) ==
    IF as = {} THEN 0
    ELSE LET a == CHOOSE x \in as : TRUE
         IN IF as = {a} THEN row[a]
            ELSE Max(row[a], MaxOfRow(row, as \ {a}))

\* updateQValues with the correction subtracted instead of added
updateQValuesAway(q, stateKey, action, reward, nextStateKey) ==
    LET oldValue == QValue(q, stateKey, action)
        q0 == QSet(q, stateKey, action, oldValue)
        maxNextQ == IF nextStateKey \in DOMAIN q0
                    THEN MaxOfRow(q0[nextStateKey], DOMAIN q0[nextStateKey])
                    ELSE 0
        newValue == oldValue
                    - ((10 * reward + 9 * maxNextQ - 10 * oldValue + 50) \div 100)
    IN QSet(q0, stateKey, action, newValue)

\* updateQValues: Q(s,a) <- Q(s,a) + 0.1 * (r + 0.9 * max Q(s',.) - Q(s,a)),
\* in thousandths; the correction is rounded to the nearest thousandth, as
\* floating-point arithmetic rounds to the nearest representable value
updateQValues(q, stateKey, action, reward, nextStateKey) ==
    LET oldValue == QValue(q, stateKey, action)
        q0 == QSet(q, stateKey, action, oldValue)
        maxNextQ == IF nextStateKey \in DOMAIN q0
                    THEN MaxOfRow(q0[nextStateKey], DOMAIN q0[nextStateKey])
                    ELSE 0
        newValue == oldValue
                    + ((10 * reward + 9 * maxNextQ - 10 * oldValue + 50) \div 100)
    IN QSet(q0, stateKey, action, newValue)

\* the experience-replay loop of lines 584-595; draws holds its random draws
RECURSIVE Replay(_, _, _, _)
Replay(q, hist, currentStateKey, draws) ==
    IF draws = <<>> THEN q
    ELSE LET randomIndex == ((Head(draws) * Len(hist)) \div 1000) + 1
             experience == hist[randomIndex]
             nextStateKey == IF randomIndex < Len(hist)
                             THEN hist[randomIndex + 1].state
                             ELSE currentStateKey
         IN Replay(updateQValues(q, experience.state, experience.action,
                                 experience.reward, nextStateKey),
                   hist, currentStateKey, Tail(draws))

\* RLLearn with a full buffer refusing the new entry instead of dropping its
\* oldest one
RLLearnDropsNewest(inst, q, currentStateKey, selectedAction, reward, draws) ==
    LET learns == inst.lastStateKey /= <<>> /\ inst.lastAction /= ""
        q1 == IF learns
              THEN updateQValues(q, inst.lastStateKey, inst.lastAction, reward,
                                 currentStateKey)
              ELSE q
        pushed == Append(inst.stateHistory,
                         [state  |-> inst.lastStateKey,
                          action |-> inst.lastAction,
                          reward |-> reward])
        hist == IF ~learns THEN inst.stateHistory
                ELSE IF Len(pushed) > maxMemorySize THEN SubSeq(pushed, 1, maxMemorySize)
                ELSE pushed
        counter == inst.updateCounter + 1
        replays == counter >= batchUpdateSize /\ Len(hist) > 10
    IN [lastStateKey  |-> currentStateKey,
        lastAction    |-> selectedAction,
        qValues       |-> IF replays THEN Replay(q1, hist, currentStateKey, draws)
                          ELSE q1,
        stateHistory  |-> hist,
        updateCounter |-> IF replays THEN 0 ELSE counter]

\* lines 563-601: what update() does to the instance fields
RLLearn(inst, q, currentStateKey, selectedAction, reward, draws) ==
    LET learns == inst.lastStateKey /= <<>> /\ inst.lastAction /= ""
        q1 == IF learns
              THEN updateQValues(q, inst.lastStateKey, inst.lastAction, reward,
                                 currentStateKey)
              ELSE q
        pushed == Append(inst.stateHistory,
                         [state  |-> inst.lastStateKey,
                          action |-> inst.lastAction,
                          reward |-> reward])
        hist == IF ~learns THEN inst.stateHistory
                ELSE IF Len(pushed) > maxMemorySize THEN Tail(pushed)
                ELSE pushed
        counter == inst.updateCounter + 1
        replays == counter >= batchUpdateSize /\ Len(hist) > 10
    IN [lastStateKey  |-> currentStateKey,
        lastAction    |-> selectedAction,
        qValues       |-> IF replays THEN Replay(q1, hist, currentStateKey, draws)
                          ELSE q1,
        stateHistory  |-> hist,
        updateCounter |-> IF replays THEN 0 ELSE counter]

\* lines 606-617: timers advance, a yellow older than yellowDuration turns red
RLTiming(lights, deltaTime) ==
    [i \in 1..Len(lights) |->
        IF lights[i].state = "yellow" /\ lights[i].timer + deltaTime > yellowDuration
        THEN [lights[i] EXCEPT !.state = "red", !.timer = 0]
        ELSE [lights[i] EXCEPT !.timer = lights[i].timer + deltaTime]]

\* lines 619-649: an axis that has just turned red gives green to the other axis
RLConsistency(lights) ==
    LET nsYellowToRed == \E i \in 1..Len(lights) :
            /\ isNorthSouth(lights[i].direction)
            /\ lights[i].state = "red" /\ lights[i].timer = 0
        ewYellowToRed == \E i \in 1..Len(lights) :
            /\ isEastWest(lights[i].direction)
            /\ lights[i].state = "red" /\ lights[i].timer = 0
        l1 == IF nsYellowToRed THEN ForceGreen(lights, "ew") ELSE lights
    IN IF ewYellowToRed THEN ForceGreen(l1, "ns") ELSE l1

\* the axis the safety check of lines 651-671 turns green.  The expression
\* `north ?? 0 + south ?? 0` groups as `north ?? ((0 + south) ?? 0)`:
\* its value is trafficDensity.north; likewise trafficDensity.east.
RLFallbackAxis(density) ==
    LET northSouthDensity == density.north
        eastWestDensity == density.east
    IN IF northSouthDensity >= eastWestDensity THEN "ns" ELSE "ew"

\* lines 651-671: no light is green after the transitions
RLFallback(lights, density) ==
    IF ~anyGreen(lights) THEN ForceGreen(lights, RLFallbackAxis(density))
    ELSE lights

\* the lights update() has built when it reaches the safety check
RLBeforeFallback(lights, selectedAction, deltaTime) ==
    RLConsistency(RLTiming(applyAction(lights, selectedAction), deltaTime))

\* ReinforcementLearningController.update on the instance inst.
\* u, r: the draws of selectAction; draws: the draws of the replay loop.
RLUpdate(inst, lights, vs, stats, now, deltaTime, u, r, draws) ==
    LET currentStateKey == getCurrentState(lights, vs)
        availableActions == getAvailableActions(lights)
        q == InitQValues(inst.qValues, currentStateKey, availableActions)
        selectedAction == selectAction(q, currentStateKey, availableActions,
                                       now, u, r)
        trafficDensity == calculateWeightedTrafficDensity(vs)
        reward == calculateReward(stats, vs)
    IN [lights  |-> RLFallback(RLBeforeFallback(lights, selectedAction, deltaTime),
                               trafficDensity),
        density |-> trafficDensity,
        inst    |-> RLLearn(inst, q, currentStateKey, selectedAction, reward, draws)]

----------------------------------------------------------------------------
(* Vehicles *)

\* isVehicleAtTrafficLight: v is in the capture zone of its direction
atLight(v) ==
    LET atStopLine ==
            CASE v.direction = "north" -> v.y >= 260 /\ v.y <= 270
              [] v.direction = "south" -> v.y >= 130 /\ v.y <= 140
              [] v.direction = "east"  -> v.x >= 230 /\ v.x <= 240
              [] v.direction = "west"  -> v.x >= 360 /\ v.x <= 370
        dx == v.x - CenterX
        dy == v.y - CenterY
        isAtIntersection == /\ (IF dx < 0 THEN -dx ELSE dx) < 50
                            /\ (IF dy < 0 THEN -dy ELSE dy) < 50
    IN atStopLine \/ isAtIntersection

\* state of the light that governs direction d
LightStateOf(lights, d) ==
    LET i == CHOOSE j \in 1..Len(lights) :
                 /\ lights[j].direction = d
                 /\ \A k \in 1..(j - 1) : lights[k].direction /= d
    IN lights[i].state

\* StopsAtRed with a yellow light stopping the vehicle as well
StopsAtRedOrYellow(v, lights) ==
    atLight(v) /\ LightStateOf(lights, v.direction) \in {"red", "yellow"}

\* the vehicle stops at a red light (lines 803-808)
StopsAtRed(v, lights) == atLight(v) /\ LightStateOf(lights, v.direction) = "red"

\* isVehicleAhead: some other vehicle of the same direction and lane is
\* strictly ahead of v and closer than v's safe distance
isVehicleAhead(v, others) ==
    LET vehicleSize == IF v.type = "car" THEN 20 ELSE 30
        safeDistance == vehicleSize + 5
    IN \E k \in 1..Len(others) :
          LET o == others[k]
          IN /\ o.id /= v.id
             /\ o.direction = v.direction
             /\ o.lane = v.lane
             /\ CASE v.direction = "north" -> o.y < v.y /\ v.y - o.y < safeDistance
                  [] v.direction = "south" -> o.y > v.y /\ o.y - v.y < safeDistance
                  [] v.direction = "east"  -> o.x > v.x /\ o.x - v.x < safeDistance
                  [] v.direction = "west"  -> o.x < v.x /\ v.x - o.x < safeDistance

\* Moved with the wait of the vehicle cleared once it moves
MovedResetsWait(v, dist) ==
    CASE v.direction = "north" -> [v EXCEPT !.y = @ - dist, !.waitTime = 0]
      [] v.direction = "south" -> [v EXCEPT !.y = @ + dist, !.waitTime = 0]
      [] v.direction = "east"  -> [v EXCEPT !.x = @ + dist, !.waitTime = 0]
      [] v.direction = "west"  -> [v EXCEPT !.x = @ - dist, !.waitTime = 0]

\* the vehicle moved by dist pixels along its direction of travel
Moved(v, dist) ==
    CASE v.direction = "north" -> [v EXCEPT !.y = @ - dist]
      [] v.direction = "south" -> [v EXCEPT !.y = @ + dist]
      [] v.direction = "east"  -> [v EXCEPT !.x = @ + dist]
      [] v.direction = "west"  -> [v EXCEPT !.x = @ - dist]

\* the callback of the map of lines 800-836 for the vehicle at index i.
\* done holds the vehicles already processed.  The copies share their
\* position objects with state.vehicles, so the vehicles behind index i are
\* compared with the positions the earlier vehicles have already moved to.
RECURSIVE MapVehicles(_, _, _, _, _)
MapVehicles(done, vs, lights, deltaTime, simulationSpeed) ==
    IF Len(done) = Len(vs) THEN done
    ELSE LET i == Len(done) + 1
             v == vs[i]
             seen == done \o SubSeq(vs, i, Len(vs))
             waited == [v EXCEPT !.waitTime = @ + 100 * deltaTime * simulationSpeed]
             w == IF StopsAtRed(v, lights) THEN waited
                  ELSE IF isVehicleAhead(v, seen) THEN waited
                  ELSE Moved(v, (v.speed * deltaTime * simulationSpeed) \div 10)
         IN MapVehicles(Append(done, w), vs, lights, deltaTime, simulationSpeed)

\* InWorld without the test of the upper edge
InWorldBelowTop(v) == v.x >= 0 /\ v.x <= WorldWidth /\ v.y <= WorldHeight

\* the filter of lines 838-843
InWorld(v) == v.x >= 0 /\ v.x <= WorldWidth /\ v.y >= 0 /\ v.y <= WorldHeight

RECURSIVE FilterInWorld(_)
FilterInWorld(vs) ==
    IF vs = <<>> THEN <<>>
    ELSE IF InWorld(Head(vs)) THEN <<Head(vs)>> \o FilterInWorld(Tail(vs))
    ELSE FilterInWorld(Tail(vs))

\* updateVehicles with the vehicles advanced at half the simulation speed
updateVehiclesHalfStep(vs, lights, deltaTime, simulationSpeed) ==
    FilterInWorld(MapVehicles(<<>>, vs, lights, deltaTime, simulationSpeed \div 2))

\* updateVehicles
updateVehicles(vs, lights, deltaTime, simulationSpeed) ==
    FilterInWorld(MapVehicles(<<>>, vs, lights, deltaTime, simulationSpeed))

\* Spawns with half the spawn chance
SpawnsAtHalfRate(u, spawnRate, deltaTime, simulationSpeed) ==
    ~(10 * u > (spawnRate * deltaTime * simulationSpeed) \div 2)

\* lines 942-945: the tick spawns unless Math.random() > spawnChance
Spawns(u, spawnRate, deltaTime, simulationSpeed) ==
    ~(10 * u > spawnRate * deltaTime * simulationSpeed)

\* lines 957-986: spawn position for a direction and a lane
SpawnPosition(direction, lane) ==
    CASE direction = "north" -> [x |-> IF lane = "left" THEN 280 ELSE 300, y |-> 400]
      [] direction = "south" -> [x |-> IF lane = "left" THEN 320 ELSE 340, y |-> 0]
      [] direction = "east"  -> [x |-> 0,   y |-> IF lane = "left" THEN 180 ELSE 200]
      [] direction = "west"  -> [x |-> 600, y |-> IF lane = "left" THEN 200 ELSE 220]

\* the vehicle spawnVehicles creates from its draws d (direction), t (type)
\* and l (lane); n numbers the vehicle (its id)
NewVehicle(n, d, t, l) ==
    LET direction == Directions[((d * 4) \div 1000) + 1]
        type == IF t > 800 THEN "truck" ELSE "car"
        lane == IF l > 500 THEN "left" ELSE "right"
        position == SpawnPosition(direction, lane)
    IN [id        |-> n,
        type      |-> type,
        x         |-> position.x,
        y         |-> position.y,
        direction |-> direction,
        lane      |-> lane,
        speed     |-> IF type = "car" THEN 40 ELSE 30,
        waitTime  |-> 0]

RECURSIVE TotalWaitTime(_)
TotalWaitTime(vs) ==
    IF vs = <<>> THEN 0 ELSE Head(vs).waitTime + TotalWaitTime(Tail(vs))

\* updateStatistics with the total wait divided by the number of vehicles
\* spawned so far instead of the number of vehicles present
updateStatisticsOverSpawned(stats, vs) ==
    LET averageWaitTime == IF stats.totalVehicles > 0
                           THEN TotalWaitTime(vs) \div stats.totalVehicles ELSE 0
        throughputBase == 1000 * ((stats.totalVehicles * 8) \div 10)
        waitTimePenalty == (15 * averageWaitTime) \div 100
        vehicleCountBonus == Min(10000, 500 * Len(vs))
    IN [stats EXCEPT !.averageWaitTime = averageWaitTime,
                     !.throughput = Max(0, throughputBase - waitTimePenalty
                                            + vehicleCountBonus)]

\* updateStatistics: averageWaitTime and throughput (thousandths)
updateStatistics(stats, vs) ==
    LET averageWaitTime == IF Len(vs) > 0 THEN TotalWaitTime(vs) \div Len(vs) ELSE 0
        throughputBase == 1000 * ((stats.totalVehicles * 8) \div 10)
        waitTimePenalty == (15 * averageWaitTime) \div 100
        vehicleCountBonus == Min(10000, 500 * Len(vs))
    IN [stats EXCEPT !.averageWaitTime = averageWaitTime,
                     !.throughput = Max(0, throughputBase - waitTimePenalty
                                            + vehicleCountBonus)]

----------------------------------------------------------------------------
(* The simulation stepper *)

\* draws of Math.random(), in thousandths: the two ends of [0, 1)
SpawnDraws == {0, 999}

\* draws for direction, type and lane of a spawned vehicle
VehicleDraws ==
    [direction : {0, 250, 500, 750}, type : {0, 900}, lane : {0, 900}]

NoVehicleDraws == {[direction |-> 0, type |-> 0, lane |-> 0]}

\* draws the RL controller takes on the instance inst at time now:
\* u (explore or exploit), r (the random action, read when it explores),
\* replay (the five indices of a replay batch, read when a batch is due)
RLDraws(inst, now) ==
    {[u |-> 999, r |-> 0, replay |-> <<0, 0, 0, 0, 0>>]}
    \cup [u : {0}, r : {0, 500, 999},
          replay : IF inst.updateCounter + 1 >= batchUpdateSize
                   THEN {<<0, 0, 0, 0, 0>>, <<0, 250, 500, 750, 999>>}
                   ELSE {<<0, 0, 0, 0, 0>>}]

NoDraws == [u |-> 999, r |-> 0, replay |-> <<0, 0, 0, 0, 0>>]

\* controller.update(state, deltaTime) for the controller kind ctl, on the
\* instances a (adaptive) and q (reinforcement)
ControllerUpdate(ctl, a, q, deltaTime, d) ==
    IF ctl = "adaptive"
    THEN LET res == AdaptiveUpdate(a, trafficLights, vehicles, time, deltaTime)
         IN [lights |-> res.lights, density |-> res.density,
             adaptive |-> res.inst, rl |-> q]
    ELSE IF ctl = "reinforcement"
    THEN LET res == RLUpdate(q, trafficLights, vehicles, statistics, time,
                             deltaTime, d.u, d.r, d.replay)
         IN [lights |-> res.lights, density |-> res.density,
             adaptive |-> a, rl |-> res.inst]
    ELSE LET res == FixedUpdate(trafficLights, vehicles, deltaTime)
         IN [lights |-> res.lights, density |-> res.density,
             adaptive |-> a, rl |-> q]

\* AfterController with the vehicles gated against the lights of the input
\* state instead of the lights the controller has just produced
AfterControllerInputLights(lights, density, deltaTime, u, vd) ==
    LET moved == updateVehicles(vehicles, trafficLights, deltaTime,
                                config.simulationSpeed)
        spawns == Spawns(u, config.spawnRate, deltaTime, config.simulationSpeed)
        total == IF spawns THEN statistics.totalVehicles + 1
                 ELSE statistics.totalVehicles
        vs == IF spawns
              THEN Append(moved, NewVehicle(total, vd.direction, vd.type, vd.lane))
              ELSE moved
    IN /\ trafficLights' = lights
       /\ vehicles' = vs
       /\ statistics' = updateStatistics(
                            [statistics EXCEPT !.trafficDensity = density,
                                               !.totalVehicles = total], vs)
       /\ time' = time + deltaTime
       /\ UNCHANGED <<config, Q, localStorage>>

\* updateVehicles, spawnVehicles, updateStatistics and the clock, after the
\* controller has produced the lights and the density (lines 783-791)
AfterController(lights, density, deltaTime, u, vd) ==
    LET moved == updateVehicles(vehicles, lights, deltaTime,
                                config.simulationSpeed)
        spawns == Spawns(u, config.spawnRate, deltaTime, config.simulationSpeed)
        total == IF spawns THEN statistics.totalVehicles + 1
                 ELSE statistics.totalVehicles
        vs == IF spawns
              THEN Append(moved, NewVehicle(total, vd.direction, vd.type, vd.lane))
              ELSE moved
    IN /\ trafficLights' = lights
       /\ vehicles' = vs
       /\ statistics' = updateStatistics(
                            [statistics EXCEPT !.trafficDensity = density,
                                               !.totalVehicles = total], vs)
       /\ time' = time + deltaTime
       /\ UNCHANGED <<config, Q, localStorage>>

\* getControllerByType: every call constructs a new controller
getControllerByType(type) == [adaptive |-> NewAdaptive, rl |-> NewRL]

\* updateSimulation with an updateStatistics that also sets
\* statistics.totalVehicles to the number of vehicles present
updateSimulationRecount(deltaTime) ==
    \E u \in SpawnDraws :
    \E vd \in IF Spawns(u, config.spawnRate, deltaTime, config.simulationSpeed)
              THEN VehicleDraws ELSE NoVehicleDraws :
    \E d \in IF config.aiController = "reinforcement"
             THEN RLDraws(NewRL, time) ELSE {NoDraws} :
        LET controller == getControllerByType(config.aiController)
            res == ControllerUpdate(config.aiController, controller.adaptive,
                                    controller.rl, deltaTime, d)
            moved == updateVehicles(vehicles, res.lights, deltaTime,
                                    config.simulationSpeed)
            spawns == Spawns(u, config.spawnRate, deltaTime, config.simulationSpeed)
            total == IF spawns THEN statistics.totalVehicles + 1
                     ELSE statistics.totalVehicles
            vs == IF spawns
                  THEN Append(moved, NewVehicle(total, vd.direction, vd.type, vd.lane))
                  ELSE moved
        IN /\ trafficLights' = res.lights
           /\ vehicles' = vs
           /\ statistics' = updateStatistics(
                                [statistics EXCEPT !.trafficDensity = res.density,
                                                   !.totalVehicles = Len(vs)], vs)
           /\ time' = time + deltaTime
           /\ UNCHANGED <<config, Q, localStorage>>
           /\ adaptive' = getControllerByType(config.aiController).adaptive
           /\ rl' = getControllerByType(config.aiController).rl

\* updateSimulation(state, deltaTime).  The controller is local to the call:
\* the update runs on a newly constructed instance, which is dropped when the
\* call returns, and the next call constructs its controller anew.
updateSimulation(deltaTime) ==
    \E u \in SpawnDraws :
    \E vd \in IF Spawns(u, config.spawnRate, deltaTime, config.simulationSpeed)
              THEN VehicleDraws ELSE NoVehicleDraws :
    \E d \in IF config.aiController = "reinforcement"
             THEN RLDraws(NewRL, time) ELSE {NoDraws} :
        LET controller == getControllerByType(config.aiController)
            res == ControllerUpdate(config.aiController, controller.adaptive,
                                    controller.rl, deltaTime, d)
        IN /\ AfterController(res.lights, res.density, deltaTime, u, vd)
           /\ adaptive' = getControllerByType(config.aiController).adaptive
           /\ rl' = getControllerByType(config.aiController).rl

\* handleControllerChange(value): only config.aiController is replaced
handleControllerChange(value) ==
    /\ value /= config.aiController
    /\ config' = [config EXCEPT !.aiController = value]
    /\ UNCHANGED <<vehicles, trafficLights, time, statistics, adaptive, rl,
                   Q, localStorage>>

\* handleSpawnRateChange(value): only config.spawnRate is replaced
handleSpawnRateChange(value) ==
    /\ value /= config.spawnRate
    /\ config' = [config EXCEPT !.spawnRate = value]
    /\ UNCHANGED <<vehicles, trafficLights, time, statistics, adaptive, rl,
                   Q, localStorage>>

\* localStorage.getItem('qTable') before anything has been stored
NoItem == [present |-> FALSE, value |-> {}]

\* handleParamChange(param, value): only config.aiParams[param] is replaced
handleParamChange(param, value) ==
    /\ value /= config.aiParams[param]
    /\ config' = [config EXCEPT !.aiParams[param] = value]
    /\ UNCHANGED <<vehicles, trafficLights, time, statistics, adaptive, rl,
                   Q, localStorage>>

\* createInitialState(), with config.aiController set to ctl.
\* spawnRate 0.3 in thousandths, simulationSpeed 1 and adaptiveThreshold 1.5
\* in tenths.
InitialState(ctl) ==
    /\ vehicles = <<>>
    /\ trafficLights = InitialLights
    /\ time = 0
    /\ statistics = [totalVehicles |-> 0, averageWaitTime |-> 0,
                     throughput |-> 0, trafficDensity |-> ZeroDensity]
    /\ config = [spawnRate |-> 300, simulationSpeed |-> 10, aiController |-> ctl,
                 aiParams |-> [adaptiveThreshold |-> 15]]
    /\ adaptive = NewAdaptive
    /\ rl = NewRL
    /\ Q = <<>>
    /\ localStorage = NoItem

----------------------------------------------------------------------------
(* A single AdaptiveController instance, updated tick after tick *)

\* the vehicles handed to the update: nothing, a car 40 pixels before the
\* centre on the north-south axis, one 60 pixels before it on the east-west
\* axis, or both
InstanceVehicles ==
    LET n == [id |-> 1, type |-> "car", x |-> 300, y |-> 240,
              direction |-> "north", lane |-> "right", speed |-> 40, waitTime |-> 0]
        e == [id |-> 2, type |-> "car", x |-> 240, y |-> 200,
              direction |-> "east", lane |-> "right", speed |-> 40, waitTime |-> 0]
    IN {<<>>, <<n>>, <<e>>}

\* controller.update(state, deltaTime) on the kept instance, with the lights
\* of the previous update, the vehicles vs and the clock advanced by deltaTime
AdaptiveInstanceUpdate(vs, deltaTime) ==
    LET res == AdaptiveUpdate(adaptive, trafficLights, vs, time, deltaTime)
    IN /\ adaptive' = res.inst
       /\ trafficLights' = res.lights
       /\ vehicles' = vs
       /\ statistics' = [statistics EXCEPT !.trafficDensity = res.density]
       /\ time' = time + deltaTime
       /\ UNCHANGED <<config, rl, Q, localStorage>>

----------------------------------------------------------------------------
(* qlearning.ts: the global Q-table, saveQTable and loadQTable *)

\* state keys as getStateKey builds them: nsQueue_ewQueue_phase_timeInPhase
QKeys == {"0_0_NS_1", "2_0_NS_2"}

\* getReward for one queued vehicle, in thousandths
QRewards == {-1000}

\* lines 63-69: both rows exist after the call, Q[prevKey][action] moves a
\* tenth of the way to reward + 0.9 * max(Q[nextKey].stay, Q[nextKey].switch)
QTableAfterUpdate(table, prevKey, action, reward, nextKey) ==
    LET init == [k \in DOMAIN table \cup {prevKey, nextKey} |->
                    IF k \in DOMAIN table THEN table[k]
                    ELSE [stay |-> 0, switch |-> 0]]
        oldValue == init[prevKey][action]
        nextMax == Max(init[nextKey].stay, init[nextKey].switch)
        newValue == oldValue
                    + ((10 * reward + 9 * nextMax - 10 * oldValue + 50) \div 100)
    IN [init EXCEPT ![prevKey][action] = newValue]

\* updateQTable(prevKey, action, reward, nextKey)
updateQTable(prevKey, action, reward, nextKey) ==
    LET after == QTableAfterUpdate(Q, prevKey, action, reward, nextKey)
    IN /\ after[prevKey][action] >= -MaxQMagnitude
       /\ after[prevKey][action] <= MaxQMagnitude
       /\ Q' = after
       /\ UNCHANGED <<vehicles, trafficLights, time, statistics, config,
                      adaptive, rl, localStorage>>

\* JSON.stringify(Q): the text lists, for every state key of the table, the
\* key with its stay value and its switch value
JSONstringify(table) ==
    {<<k, table[k].stay, table[k].switch>> : k \in DOMAIN table}

\* JSON.parse(saved): the object with one property per listed key
JSONparse(text) ==
    [k \in {e[1] : e \in text} |->
        LET e == CHOOSE x \in text : x[1] = k
        IN [stay |-> e[2], switch |-> e[3]]]

\* saveQTable(): localStorage.setItem('qTable', JSON.stringify(Q))
saveQTable ==
    /\ localStorage' = [present |-> TRUE, value |-> JSONstringify(Q)]
    /\ UNCHANGED <<vehicles, trafficLights, time, statistics, config,
                   adaptive, rl, Q>>

\* loadQTable(): every key of the parsed table is assigned into Q
\* (part_009 lines 136-138; Object.assign(Q, ...) in part_001 line 83)
loadQTable ==
    /\ localStorage.present
    /\ LET parsedTable == JSONparse(localStorage.value)
       IN Q' = [k \in DOMAIN Q \cup DOMAIN parsedTable |->
                   IF k \in DOMAIN parsedTable THEN parsedTable[k] ELSE Q[k]]
    /\ UNCHANGED <<vehicles, trafficLights, time, statistics, config,
                   adaptive, rl, localStorage>>

----------------------------------------------------------------------------
(* A single ReinforcementLearningController instance, updated tick after tick *)

\* the vehicles handed to the update: nothing, or a car 60 pixels before the
\* centre on the east-west axis
RLInstanceVehicles ==
    {<<>>,
     <<[id |-> 1, type |-> "car", x |-> 240, y |-> 200,
        direction |-> "east", lane |-> "right", speed |-> 40, waitTime |-> 0]>>}

\* controller.update(state, deltaTime) on the kept instance, with the lights
\* of the previous update, the vehicles vs, the draws d and the clock advanced
\* by deltaTime
RLInstanceUpdate(vs, deltaTime, d) ==
    LET res == RLUpdate(rl, trafficLights, vs, statistics, time, deltaTime,
                        d.u, d.r, d.replay)
    IN /\ rl' = res.inst
       /\ trafficLights' = res.lights
       /\ vehicles' = vs
       /\ statistics' = [statistics EXCEPT !.trafficDensity = res.density]
       /\ time' = time + deltaTime
       /\ UNCHANGED <<config, adaptive, Q, localStorage>>

----------------------------------------------------------------------------
(* Specifications *)

\* createInitialState()
Init == InitialState("fixed")

\* the controller is selected before the first tick and then held
InitHeld == \E ctl \in Controllers : InitialState(ctl)

\* a tick of the animation loop with a frame time of 1 or 6 seconds
Tick ==
    /\ time < MaxSimTime
    /\ \E deltaTime \in {1, 6} : updateSimulation(deltaTime)
    /\ statistics'.totalVehicles <= MaxSpawn

Next == Tick

\* the simulation with the controller held at one value
Spec == InitHeld /\ [][Next]_vars

\* fixed policy, 1-second ticks
TickFixed ==
    /\ time < MaxTime
    /\ updateSimulation(1)
    /\ statistics'.totalVehicles <= MaxSpawnFixed

NextFixed == TickFixed

SpecFixed == Init /\ [][NextFixed]_vars

\* a tick with a frame time of 1 or 3 seconds
TickChange ==
    /\ time < MaxChangeTime
    /\ \E deltaTime \in {1, 3} : updateSimulation(deltaTime)
    /\ statistics'.totalVehicles <= MaxSpawnChange

\* the controller selector
ControllerChange == \E value \in Controllers : handleControllerChange(value)

NextChange == TickChange \/ ControllerChange

\* the simulation with controller changes between ticks
SpecChange == Init /\ [][NextChange]_vars

\* adaptive policy, 1-second ticks
TickStarve ==
    /\ time < MaxStarveTime
    /\ updateSimulation(1)
    /\ statistics'.totalVehicles <= MaxSpawnStarve

NextStarve == TickStarve

SpecStarve == InitialState("adaptive") /\ [][NextStarve]_vars

\* one AdaptiveController instance, frame times of 1 or 2 seconds
TickAdaptive ==
    /\ time < MaxInstTime
    /\ \E vs \in InstanceVehicles :
       \E deltaTime \in {1, 2} : AdaptiveInstanceUpdate(vs, deltaTime)

NextAdaptive == TickAdaptive

SpecAdaptive == InitialState("adaptive") /\ [][NextAdaptive]_vars

\* a tick with a frame time of 3 seconds: a car advances 120 pixels, a truck
\* 90, and the tick spawns with probability 0.9
TickTraffic ==
    /\ time < MaxTrafficTime
    /\ updateSimulation(3)
    /\ statistics'.totalVehicles <= MaxSpawnTraffic

NextTraffic == TickTraffic

\* traffic under the fixed or the adaptive controller
SpecTraffic ==
    /\ \E ctl \in {"fixed", "adaptive"} : InitialState(ctl)
    /\ [][NextTraffic]_vars

\* a tick with a frame time of 3 seconds
TickLong ==
    /\ time < MaxLongTime
    /\ updateSimulation(3)
    /\ statistics'.totalVehicles <= MaxSpawnLong

NextLong == TickLong

\* the fixed schedule through its first phase changes, one vehicle on the road
SpecLong == Init /\ [][NextLong]_vars

\* a tick with a frame time of 1 second: a car advances 40 pixels, a truck 30
TickFollow ==
    /\ time < MaxFollowTime
    /\ updateSimulation(1)
    /\ statistics'.totalVehicles <= MaxSpawnFollow

NextFollow == TickFollow

\* two vehicles entering one after the other, fixed controller
SpecFollow == Init /\ [][NextFollow]_vars

\* a tick with a frame time of 1 or 2 seconds
TickSpawn ==
    /\ time < MaxSpawnTime
    /\ \E deltaTime \in {1, 2} : updateSimulation(deltaTime)

\* the spawn-rate slider set to 0.5 or to 1.0
SpawnRateChange == \E value \in {500, 1000} : handleSpawnRateChange(value)

NextSpawn == TickSpawn \/ SpawnRateChange

\* the simulation with the spawn rate changed between ticks
SpecSpawn == Init /\ [][NextSpawn]_vars

\* one ReinforcementLearningController instance, 1-second ticks
TickRL ==
    /\ time < MaxRLTime
    /\ \E vs \in RLInstanceVehicles :
       \E d \in RLDraws(rl, time) : RLInstanceUpdate(vs, 1, d)

NextRL == TickRL

SpecRL == InitialState("reinforcement") /\ [][NextRL]_vars

\* the vehicles handed to the update: nothing, or a north-bound car 40 pixels
\* before the centre together with an east-bound car 60 pixels before it
ThresholdVehicles ==
    {<<>>,
     <<[id |-> 1, type |-> "car", x |-> 300, y |-> 240,
        direction |-> "north", lane |-> "right", speed |-> 40, waitTime |-> 0],
       [id |-> 2, type |-> "car", x |-> 240, y |-> 200,
        direction |-> "east", lane |-> "right", speed |-> 40, waitTime |-> 0]>>}

\* one AdaptiveController instance, 1-second ticks
TickThreshold ==
    /\ time < MaxThresholdTime
    /\ \E vs \in ThresholdVehicles : AdaptiveInstanceUpdate(vs, 1)

\* the threshold control set to 1.0, 1.5 or 3.0
ParamChange ==
    \E value \in {10, 15, 30} : handleParamChange("adaptiveThreshold", value)

NextThreshold == TickThreshold \/ ParamChange

\* one AdaptiveController instance with the threshold changed between updates
SpecThreshold == InitialState("adaptive") /\ [][NextThreshold]_vars

\* the vehicles handed to the update: an empty road at time 0, then a
\* north-bound car 40 pixels before the centre
HistoryVehicles ==
    IF time = 0 THEN <<>>
    ELSE <<[id |-> 1, type |-> "car", x |-> 300, y |-> 240,
            direction |-> "north", lane |-> "right", speed |-> 40, waitTime |-> 0]>>

\* one AdaptiveController instance; a frame time of 0 is a frame that carries
\* the timestamp of the previous one, a frame time of 6 a long pause
TickHistory ==
    /\ time < MaxHistoryTime
    /\ \E deltaTime \in {0, 6} : AdaptiveInstanceUpdate(HistoryVehicles, deltaTime)

NextHistory == TickHistory

\* many updates within one second, and pauses that let samples grow older
\* than 10 s
SpecHistory == InitialState("adaptive") /\ [][NextHistory]_vars

\* the vehicles handed to the update: traffic at the start, then an empty road
ReplayVehicles == IF time < MaxReplayVaried THEN RLInstanceVehicles ELSE {<<>>}

\* the draws: exploring at the start, then exploiting
ReplayDraws == IF time < MaxReplayVaried THEN RLDraws(rl, time) ELSE {NoDraws}

\* one ReinforcementLearningController instance, 5-second ticks
TickReplay ==
    /\ time < MaxReplayTime
    /\ \E vs \in ReplayVehicles :
       \E d \in ReplayDraws : RLInstanceUpdate(vs, 5, d)

NextReplay == TickReplay

\* a long run of one instance: more than 100 updates, past the time at which
\* the exploration rate reaches its floor
SpecReplay == InitialState("reinforcement") /\ [][NextReplay]_vars

\* a tick with a frame time of 1 second whose spawn draws put the vehicle on
\* the right lane of the east-bound road
TickQueue ==
    /\ time < MaxQueueTime
    /\ updateSimulation(1)
    /\ statistics'.totalVehicles <= MaxSpawnQueue
    /\ \A i \in 1..Len(vehicles') :
           vehicles'[i].direction = "east" /\ vehicles'[i].lane = "right"

NextQueue == TickQueue

\* two vehicles on one lane, fixed controller: the east light is red until
\* second 25 and the vehicles queue behind its stop line
SpecQueue == Init /\ [][NextQueue]_vars

\* createInitialState() with config.spawnRate as it is (0.3) or set to 0
InitIdle ==
    /\ vehicles = <<>>
    /\ trafficLights = InitialLights
    /\ time = 0
    /\ statistics = [totalVehicles |-> 0, averageWaitTime |-> 0,
                     throughput |-> 0, trafficDensity |-> ZeroDensity]
    /\ \E spawnRate \in {0, 300} :
           config = [spawnRate |-> spawnRate, simulationSpeed |-> 10,
                     aiController |-> "fixed",
                     aiParams |-> [adaptiveThreshold |-> 15]]
    /\ adaptive = NewAdaptive
    /\ rl = NewRL
    /\ Q = <<>>
    /\ localStorage = NoItem

\* a tick with a frame time of 0 (a frame that carries the timestamp of the
\* previous one) or of 1 second
TickIdle ==
    /\ time < MaxIdleTime
    /\ \E deltaTime \in {0, 1} : updateSimulation(deltaTime)
    /\ statistics'.totalVehicles <= MaxSpawnIdle

NextIdle == TickIdle

\* the simulation with a spawn chance of 0 in some or in all of its ticks
SpecIdle == InitIdle /\ [][NextIdle]_vars

\* a tick with a frame time of 1 or 6 seconds whose spawn draws give a car on
\* a right lane
TickCoherence ==
    /\ time < MaxCoherenceTime
    /\ \E deltaTime \in {1, 6} : updateSimulation(deltaTime)
    /\ statistics'.totalVehicles <= MaxSpawnCoherence
    /\ \A i \in 1..Len(vehicles') :
           vehicles'[i].type = "car" /\ vehicles'[i].lane = "right"

NextCoherence == TickCoherence \/ ControllerChange

\* short and long frames under the three controllers, the controller changed
\* between ticks
SpecCoherence == Init /\ [][NextCoherence]_vars

\* a tick with a frame time of 3 seconds, or of 50 seconds: the length of one
\* cycle of the fixed schedule
TickSkip ==
    /\ time < MaxSkipTime
    /\ \E deltaTime \in {3, (greenDuration + yellowDuration) * 2} :
           updateSimulation(deltaTime)
    /\ statistics'.totalVehicles <= MaxSpawnSkip

NextSkip == TickSkip

\* the fixed schedule sampled by short frames and by frames one cycle long
SpecSkip == Init /\ [][NextSkip]_vars

\* a table update of the Q-learning controller
UpdateQTable ==
    \E prevKey \in QKeys : \E action \in {"stay", "switch"} :
    \E reward \in QRewards : \E nextKey \in QKeys :
        updateQTable(prevKey, action, reward, nextKey)

NextQTable == UpdateQTable \/ saveQTable \/ loadQTable

\* the Q-table of qlearning.ts, updated, saved and loaded in any order
SpecQTable == Init /\ [][NextQTable]_vars

----------------------------------------------------------------------------
(* Properties *)

NorthSouthLights == {i \in 1..Len(trafficLights) : isNorthSouth(trafficLights[i].direction)}
EastWestLights == {i \in 1..Len(trafficLights) : isEastWest(trafficLights[i].direction)}

\* C1: with config.aiController held at one value and any positive frame
\* times, the north-south lights and the east-west lights are never green at
\* the same time.
C1_MutualExclusion ==
    ~(nsGreen(trafficLights) /\ ewGreen(trafficLights))

\* C2: after any interleaving of ticks and controller changes, no north-south
\* light is green while an east-west light is green.
C2_MutualExclusionAcrossChanges ==
    \A i \in NorthSouthLights : \A j \in EastWestLights :
        trafficLights[i].state = "green" => trafficLights[j].state /= "green"

\* C3: under the fixed policy, after every update each light's state is the
\* function of its own timer t that the schedule gives, with
\* C = 2 * (greenDuration + yellowDuration) and m = t mod C:
\* north/south green iff m in [0, green), yellow iff m in [green, green+yellow),
\* red otherwise; east/west red iff m in [0, green+yellow), green iff m in
\* [green+yellow, 2*green+yellow), yellow otherwise.  With 1-second ticks the
\* timer is the time, so over one cycle north-south is green for 20 s, yellow
\* for 5 s and red for 25 s, and east-west is red, red, green for 20 s and
\* yellow for 5 s.
C3_FixedSchedule ==
    (config.aiController = "fixed" /\ time > 0) =>
        \A i \in 1..Len(trafficLights) :
            LET l == trafficLights[i]
                g == greenDuration
                y == yellowDuration
                m == l.timer % (2 * (g + y))
            IN /\ l.timer = time
               /\ isNorthSouth(l.direction) =>
                    /\ (l.state = "green"  <=> m \in 0..(g - 1))
                    /\ (l.state = "yellow" <=> m \in g..(g + y - 1))
                    /\ (l.state = "red"    <=> m \in (g + y)..(2 * (g + y) - 1))
               /\ isEastWest(l.direction) =>
                    /\ (l.state = "red"    <=> m \in 0..(g + y - 1))
                    /\ (l.state = "green"  <=> m \in (g + y)..(2 * g + y - 1))
                    /\ (l.state = "yellow" <=> m \in (2 * g + y)..(2 * (g + y) - 1))

\* C3 witness: 47 one-second ticks of the fixed policy have run; north-south
\* is in its red phase and east-west in its yellow phase.
W_C3 ==
    /\ config.aiController = "fixed"
    /\ time = 47
    /\ trafficLights[1].state = "red"
    /\ trafficLights[3].state = "yellow"

\* C4: after one full cycle of the fixed policy (50 ticks of 1 s) the
\* north-south lights have the state they had before the first tick.
C4_CycleReturnsToStart ==
    time = 2 * (greenDuration + yellowDuration) =>
        \A i \in NorthSouthLights :
            trafficLights[i].state = InitialLights[i].state

\* C5: no light turns red in a tick unless it was yellow before the tick: no
\* light goes from green to red in a single tick.  (The step part of the
\* claim; the claim adds that the yellow has lasted yellowDuration.)
C5_YellowBeforeRed ==
    [][\A i \in 1..Len(trafficLights) :
          (trafficLights[i].state /= "red" /\ trafficLights'[i].state = "red")
              => trafficLights[i].state = "yellow"]_vars

\* some light of the axis is yellow
nsYellow(lights) ==
    \E i \in 1..Len(lights) :
        isNorthSouth(lights[i].direction) /\ lights[i].state = "yellow"

ewYellow(lights) ==
    \E i \in 1..Len(lights) :
        isEastWest(lights[i].direction) /\ lights[i].state = "yellow"

\* C6: for one AdaptiveController instance, in no state after an update is one
\* axis green while the other axis is yellow: the opposing axis turns green
\* only after the releasing axis has become red.
C6_NoGreenBesideYellow ==
    /\ ~(nsGreen(trafficLights) /\ ewYellow(trafficLights))
    /\ ~(ewGreen(trafficLights) /\ nsYellow(trafficLights))

\* C7: for one AdaptiveController instance, a light leaves green only when at
\* least adaptiveMinGreenTime seconds of frame time have accumulated since it
\* turned green.  A green light's timer is the time accumulated up to the
\* previous update; the update that releases it adds its own frame time.
C7_MinGreenHysteresis ==
    [][\A i \in 1..Len(trafficLights) :
          (trafficLights[i].state = "green" /\ trafficLights'[i].state /= "green")
              => trafficLights[i].timer + (time' - time) >= adaptiveMinGreenTime]_vars

\* C7 witness: the north light, red at the start, has turned green and has
\* left green again (it is yellow), while east-west is still in its yellow.
W_C7 ==
    /\ trafficLights[1].state = "yellow"
    /\ trafficLights[1].timer = 0
    /\ time >= 2 * adaptiveMinGreenTime

\* C8: under the adaptive policy with 1-second ticks, an axis does not hold
\* green for more than adaptiveMaxWaitTime while a vehicle of the opposing
\* axis is waiting: the green axis is released, so that the opposing axis
\* becomes green.
C8_StarvationOverride ==
    /\ ~(/\ \A j \in EastWestLights :
               /\ trafficLights[j].state = "green"
               /\ trafficLights[j].timer > adaptiveMaxWaitTime
         /\ \E k \in 1..Len(vehicles) :
               isNorthSouth(vehicles[k].direction) /\ vehicles[k].waitTime > 0)
    /\ ~(/\ \A i \in NorthSouthLights :
               /\ trafficLights[i].state = "green"
               /\ trafficLights[i].timer > adaptiveMaxWaitTime
         /\ \E k \in 1..Len(vehicles) :
               isEastWest(vehicles[k].direction) /\ vehicles[k].waitTime > 0)

\* every update so far had a frame time of 1 second (one history sample per
\* second; samples live for 10 seconds)
UnitTicksSoFar ==
    time <= maxHistoryLength /\ Len(adaptive.trafficHistory.ns) = time

\* C9: for one AdaptiveController instance updated with 1-second frame times,
\* after every update at least one axis is green.
C9_AlwaysSomeGreen ==
    UnitTicksSoFar =>
        \E i \in 1..Len(trafficLights) : trafficLights[i].state = "green"

\* the axis with the greater total demand, north-south on a tie
DemandAxis(density) ==
    IF density.north + density.south >= density.east + density.west
    THEN "ns" ELSE "ew"

\* C10: whenever a tick of the RL policy reaches its safety check with no
\* light green, the axis it turns green is the one with the greater total of
\* trafficDensity (north + south against east + west), north-south on a tie.
C10_FallbackByTotalDemand ==
    [][(config.aiController = "reinforcement" /\ time' > time) =>
          \A j \in 1..3 :
              LET a == getAvailableActions(trafficLights)[j]
                  before == RLBeforeFallback(trafficLights, a, time' - time)
              IN (/\ ~anyGreen(before)
                  /\ \E ax \in {"ns", "ew"} : trafficLights' = ForceGreen(before, ax))
                 => trafficLights'
                      = ForceGreen(before, DemandAxis(statistics'.trafficDensity))]_vars

\* C11: while config.aiController is unchanged, the policy state a tick has
\* built up (adaptive: history, switch timer, last-switch time, phase; RL:
\* Q-values, replay buffer, update counter, last state and action) is the
\* state the next tick's policy update starts from.
C11_PolicyStatePersists ==
    [][time' > time =>
          /\ config.aiController = "adaptive" =>
                 adaptive' = AdaptiveUpdate(adaptive, trafficLights, vehicles,
                                            time, time' - time).inst
          /\ config.aiController = "reinforcement" =>
                 \E d \in RLDraws(rl, time) :
                     rl' = RLUpdate(rl, trafficLights, vehicles, statistics, time,
                                    time' - time, d.u, d.r, d.replay).inst]_vars

\* the vehicles of the state object passed to updateVehicles, after the call:
\* each copy made at line 801 has its own waitTime but shares its position
\* object with the vehicle it was copied from, so a move (lines 818-831) is
\* written through to the input vehicle
InputVehicles(vs, lights, deltaTime, simulationSpeed) ==
    LET mapped == MapVehicles(<<>>, vs, lights, deltaTime, simulationSpeed)
    IN [i \in 1..Len(vs) |-> [vs[i] EXCEPT !.x = mapped[i].x, !.y = mapped[i].y]]

\* the state object passed to updateSimulation, after the call.  Every stage
\* copies the state object one level deep: trafficLights, vehicles and time
\* are replaced on the copy, the statistics object is shared by all copies
\* and is written in place (lines 27, 102, 557, 1005, 1016-1027).
InputStateAfter(deltaTime) ==
    [vehicles      |-> InputVehicles(vehicles, trafficLights', deltaTime,
                                     config.simulationSpeed),
     trafficLights |-> trafficLights,
     statistics    |-> statistics',
     time          |-> time]

\* C12: after updateSimulation(state, deltaTime) the state object passed in
\* holds the values it had before the call (vehicle positions and wait
\* times, statistics, lights).
C12_InputStateUntouched ==
    [][time' > time =>
          InputStateAfter(time' - time)
              = [vehicles      |-> vehicles,
                 trafficLights |-> trafficLights,
                 statistics    |-> statistics,
                 time          |-> time]]_vars

\* the vehicle of the sequence vs that carries the id n, as a set
WithId(vs, n) == {vs[j] : j \in {k \in 1..Len(vs) : vs[k].id = n}}

\* v is in the stop-line band of its direction or in the box around the centre
InCaptureZone(v) ==
    \/ v.direction = "north" /\ v.y \in 260..270
    \/ v.direction = "south" /\ v.y \in 130..140
    \/ v.direction = "east"  /\ v.x \in 230..240
    \/ v.direction = "west"  /\ v.x \in 360..370
    \/ (v.x \in 251..349 /\ v.y \in 151..249)

\* the state of the light of direction d among lights
StateOfLight(lights, d) ==
    (CHOOSE l \in {lights[i] : i \in 1..Len(lights)} : l.direction = d).state

\* no other vehicle travels in the direction and lane of vs[i]
AloneInLane(vs, i) ==
    \A k \in 1..Len(vs) :
        k /= i => ~(vs[k].direction = vs[i].direction /\ vs[k].lane = vs[i].lane)

\* averageWaitTime avg (thousandths, rounded down) is the mean waitTime of vs
IsMeanWait(avg, vs) ==
    IF Len(vs) = 0 THEN avg = 0
    ELSE /\ avg * Len(vs) <= TotalWaitTime(vs)
         /\ TotalWaitTime(vs) < (avg + 1) * Len(vs)

\* the last vehicle of vs has just been spawned: it sits on a spawn position
\* with no wait
LastIsFresh(vs) ==
    /\ Len(vs) > 0
    /\ vs[Len(vs)].waitTime = 0
    /\ \E d \in {"north", "south", "east", "west"} : \E l \in Lanes :
          /\ vs[Len(vs)].direction = d
          /\ vs[Len(vs)].lane = l
          /\ vs[Len(vs)].x = SpawnPosition(d, l).x
          /\ vs[Len(vs)].y = SpawnPosition(d, l).y

\* C13: within one tick the vehicles are gated against the lights this
\* tick's policy update produced; a vehicle spawned in the tick is neither
\* moved nor made to wait; the statistics cover the vehicles including the
\* spawn; the policy update reads the time from before the clock advance.
C13_TickOrdering ==
    [][time' > time =>
          /\ \A i \in 1..Len(vehicles) :
                (InCaptureZone(vehicles[i]) /\ AloneInLane(vehicles, i)) =>
                    LET v == vehicles[i]
                        after == WithId(vehicles', v.id)
                        red == StateOfLight(trafficLights', v.direction) = "red"
                    IN IF red
                       THEN \E w \in after : w.x = v.x /\ w.y = v.y
                                             /\ w.waitTime > v.waitTime
                       ELSE \A w \in after : (w.x /= v.x \/ w.y /= v.y)
                                             /\ w.waitTime = v.waitTime
          /\ statistics'.totalVehicles > statistics.totalVehicles =>
                 /\ LastIsFresh(vehicles')
                 /\ Len(vehicles') >= 1
          /\ IsMeanWait(statistics'.averageWaitTime, vehicles')
          /\ \E d \in {NoDraws} :
                 trafficLights' = ControllerUpdate(config.aiController, NewAdaptive,
                                                   NewRL, time' - time, d).lights]_vars

\* C13 witness: a vehicle held at its red light next to a vehicle spawned in
\* the same tick, the average covering both
W_C13 ==
    /\ Len(vehicles) = 2
    /\ InCaptureZone(vehicles[1])
    /\ StateOfLight(trafficLights, vehicles[1].direction) = "red"
    /\ vehicles[1].waitTime > 0
    /\ LastIsFresh(vehicles)
    /\ 2 * statistics.averageWaitTime = vehicles[1].waitTime

\* C14: waitTime is never negative, and from one tick to the next the
\* waitTime of a vehicle that stays present does not decrease.
C14_WaitTimeMonotone ==
    [][time' > time =>
          \A j \in 1..Len(vehicles') :
              /\ vehicles'[j].waitTime >= 0
              /\ \A v \in WithId(vehicles, vehicles'[j].id) :
                     vehicles'[j].waitTime >= v.waitTime]_vars

\* C14 witness: a vehicle that has waited and has since left its capture zone
W_C14 ==
    \E i \in 1..Len(vehicles) :
        vehicles[i].waitTime > 0 /\ ~InCaptureZone(vehicles[i])

\* the position lies in the rectangle of the world
InRectangle(x, y) == x \in 0..600 /\ y \in 0..400

\* C15: every vehicle of a returned state lies in [0, 600] x [0, 400], spawned
\* ones included; a vehicle whose position after its move lies outside is
\* absent from the returned state, and no vehicle that is absent comes back.
C15_WorldContainment ==
    [][time' > time =>
          /\ \A j \in 1..Len(vehicles') :
                 /\ InRectangle(vehicles'[j].x, vehicles'[j].y)
                 /\ vehicles'[j].id <= statistics'.totalVehicles
                 /\ \/ WithId(vehicles, vehicles'[j].id) /= {}
                    \/ vehicles'[j].id > statistics.totalVehicles
          /\ \A i \in 1..Len(vehicles) :
                 LET m == MapVehicles(<<>>, vehicles, trafficLights', time' - time,
                                      config.simulationSpeed)[i]
                 IN ~InRectangle(m.x, m.y) => WithId(vehicles', m.id) = {}]_vars

\* C15 witness: one vehicle has left the world, another has just entered on
\* the edge of the rectangle
W_C15 ==
    /\ Len(vehicles) < statistics.totalVehicles
    /\ \E i \in 1..Len(vehicles) : vehicles[i].y = 400 \/ vehicles[i].x = 600

\* C16: in a tick, a vehicle in the capture zone of its direction whose light
\* is red after the policy update keeps its position and its waitTime grows
\* by exactly deltaTime x simulationSpeed; with a yellow or green light the
\* vehicle is not held by the light.
C16_RedGating ==
    [][time' > time =>
          \A i \in 1..Len(vehicles) :
              InCaptureZone(vehicles[i]) =>
                  LET v == vehicles[i]
                      adjustedDelta == 100 * (time' - time) * config.simulationSpeed
                      reach == (v.speed * adjustedDelta) \div 1000
                  IN IF StateOfLight(trafficLights', v.direction) = "red"
                     THEN \E w \in WithId(vehicles', v.id) :
                              /\ w.x = v.x /\ w.y = v.y
                              /\ w.waitTime = v.waitTime + adjustedDelta
                     ELSE AloneInLane(vehicles, i) =>
                              \A w \in WithId(vehicles', v.id) :
                                  /\ w.waitTime = v.waitTime
                                  /\ (IF v.direction \in {"north", "south"}
                                      THEN w.x = v.x /\ (w.y - v.y) \in {reach, -reach}
                                      ELSE w.y = v.y /\ (w.x - v.x) \in {reach, -reach})]_vars

\* C16 witness: a vehicle held in its capture zone by a red light for two ticks
W_C16 ==
    \E i \in 1..Len(vehicles) :
        /\ InCaptureZone(vehicles[i])
        /\ StateOfLight(trafficLights, vehicles[i].direction) = "red"
        /\ vehicles[i].waitTime = 6000

\* how far o is ahead of v along v's direction of travel (negative: behind)
AheadBy(v, o) ==
    CASE v.direction = "north" -> v.y - o.y
      [] v.direction = "south" -> o.y - v.y
      [] v.direction = "east"  -> o.x - v.x
      [] v.direction = "west"  -> v.x - o.x

\* 25 for a car, 35 for a truck
SafeDistance(v) == IF v.type = "car" THEN 25 ELSE 35

\* C17: in a tick, a vehicle that has another vehicle of its direction and
\* lane strictly ahead of it, closer than its own safe distance, keeps its
\* position and its waitTime increases.
C17_CarFollowing ==
    [][time' > time =>
          \A i \in 1..Len(vehicles) : \A k \in 1..Len(vehicles) :
              LET v == vehicles[i]
                  o == vehicles[k]
              IN (/\ k /= i
                  /\ o.direction = v.direction
                  /\ o.lane = v.lane
                  /\ AheadBy(v, o) > 0
                  /\ AheadBy(v, o) < SafeDistance(v))
                 => \E w \in WithId(vehicles', v.id) :
                        w.x = v.x /\ w.y = v.y /\ w.waitTime > v.waitTime]_vars

\* the vehicles of after whose id does not occur in before
Entered(before, after) ==
    {j \in 1..Len(after) : WithId(before, after[j].id) = {}}

\* C18: when spawnRate x deltaTime x simulationSpeed = 1.0, the tick spawns
\* whatever the random draws are: exactly one vehicle is appended, with
\* waitTime 0, and statistics.totalVehicles grows by exactly 1.
C18_CertainSpawn ==
    [][(/\ time' > time
        /\ config.spawnRate * (time' - time) * config.simulationSpeed = 10000)
       => /\ statistics'.totalVehicles = statistics.totalVehicles + 1
          /\ Entered(vehicles, vehicles') = {Len(vehicles')}
          /\ vehicles'[Len(vehicles')].waitTime = 0]_vars

\* C18 witness: two ticks of 1 second at spawn rate 1.0 have each spawned
W_C18 ==
    /\ config.spawnRate = 1000
    /\ time = 2
    /\ statistics.totalVehicles = 2
    /\ LastIsFresh(vehicles)

\* C19: vehicles travelling in opposite directions never share a track: a
\* north-bound and a south-bound vehicle differ in x, an east-bound and a
\* west-bound vehicle differ in y.
C19_OpposingTracksApart ==
    \A i \in 1..Len(vehicles) : \A k \in 1..Len(vehicles) :
        /\ (vehicles[i].direction = "north" /\ vehicles[k].direction = "south")
               => vehicles[i].x /= vehicles[k].x
        /\ (vehicles[i].direction = "east" /\ vehicles[k].direction = "west")
               => vehicles[i].y /= vehicles[k].y

\* C20: after every tick statistics.averageWaitTime is the arithmetic mean of
\* waitTime over the vehicles present in the returned state, and 0 when no
\* vehicle is present.
C20_AverageWaitTime ==
    IsMeanWait(statistics.averageWaitTime, vehicles)

\* C20 witness: two vehicles are present and both have waited, for different
\* times
W_C20 ==
    /\ Len(vehicles) = 2
    /\ vehicles[1].waitTime > 0
    /\ vehicles[2].waitTime > 0
    /\ vehicles[1].waitTime /= vehicles[2].waitTime
    /\ statistics.averageWaitTime > 0

\* C21: updateStatistics changes only statistics.averageWaitTime and
\* statistics.throughput.  The state a tick returns carries the vehicle list
\* exactly as updateVehicles and spawnVehicles left it (every moved vehicle
\* with its position, waitTime and id, then the spawned one), the lights and
\* the density as the policy update left them, the config of the input and
\* statistics.totalVehicles as the spawn step left it.
C21_StatisticsFrame ==
    [][time' > time =>
          LET deltaTime == time' - time
              moved == updateVehicles(vehicles, trafficLights', deltaTime,
                                      config.simulationSpeed)
              res == ControllerUpdate(config.aiController, NewAdaptive, NewRL,
                                      deltaTime, NoDraws)
          IN /\ \/ /\ vehicles' = moved
                   /\ statistics'.totalVehicles = statistics.totalVehicles
                \/ /\ Len(vehicles') = Len(moved) + 1
                   /\ SubSeq(vehicles', 1, Len(moved)) = moved
                   /\ LastIsFresh(vehicles')
                   /\ vehicles'[Len(vehicles')].id = statistics.totalVehicles + 1
                   /\ statistics'.totalVehicles = statistics.totalVehicles + 1
             /\ trafficLights' = res.lights
             /\ statistics'.trafficDensity = res.density
             /\ config' = config]_vars

\* C21 witness: two vehicles have been spawned, one of them is still present
\* and has waited, and the statistics show an average wait and a throughput
W_C21 ==
    /\ Len(vehicles) = 1
    /\ statistics.totalVehicles = 2
    /\ vehicles[1].waitTime > 0
    /\ statistics.averageWaitTime = vehicles[1].waitTime
    /\ statistics.throughput > 0

Abs(n) == IF n < 0 THEN -n ELSE n

\* a state key no update of the runs considered here produces
UnseenKey == <<"high", "high", "ns", "long">>

\* rewards in thousandths: none, one vehicle near the centre, a throughput of 1
Rewards == {0, -500, 2000}

\* ten times the distance r + 0.9 * max Q(s2, .) - Q(s, a), in thousandths
TargetGap(q, s, a, r, s2) ==
    LET maxNextQ == IF s2 \in DOMAIN q THEN MaxOfRow(q[s2], DOMAIN q[s2]) ELSE 0
    IN 10 * r + 9 * maxNextQ - 10 * q[s][a]

\* C22: on every table a controller instance reaches, updateQValues(s, a, r, s2)
\* sets Q(s,a) to Q(s,a) + 0.1 * (r + 0.9 * max Q(s2,.) - Q(s,a)), to the
\* nearest thousandth, with max Q(s2,.) = 0 for a state s2 that is not in the
\* table, and changes no other entry.  A second call with the same arguments
\* (s2 /= s) never increases |Q(s,a) - (r + 0.9 * max Q(s2,.))|, and each call
\* makes it smaller while it is at least 0.005.
C22_QLearningUpdate ==
    \A s \in DOMAIN rl.qValues : \A a \in DOMAIN rl.qValues[s] :
    \A r \in Rewards : \A s2 \in (DOMAIN rl.qValues \cup {UnseenKey}) \ {s} :
        LET q0 == rl.qValues
            q1 == updateQValues(q0, s, a, r, s2)
            q2 == updateQValues(q1, s, a, r, s2)
            gap0 == TargetGap(q0, s, a, r, s2)
            gap1 == TargetGap(q1, s, a, r, s2)
            gap2 == TargetGap(q2, s, a, r, s2)
        IN /\ DOMAIN q1 = DOMAIN q0
           /\ \A k \in DOMAIN q0 :
                 /\ DOMAIN q1[k] = DOMAIN q0[k]
                 /\ \A b \in DOMAIN q0[k] :
                        (k /= s \/ b /= a) => q1[k][b] = q0[k][b]
           /\ Abs(100 * (q1[s][a] - q0[s][a]) - gap0) <= 50
           /\ s2 \notin DOMAIN q0 => gap0 = 10 * r - 10 * q0[s][a]
           /\ Abs(gap1) <= Abs(gap0)
           /\ Abs(gap2) <= Abs(gap1)
           /\ Abs(gap0) >= 50 => Abs(gap1) < Abs(gap0)
           /\ Abs(gap1) >= 50 => Abs(gap2) < Abs(gap1)

\* C22 witness: the instance has learnt a non-zero value for the state and
\* action of its previous update, and another state of the table still
\* has a learnt value as well
W_C22 ==
    \E s \in DOMAIN rl.qValues : \E a \in DOMAIN rl.qValues[s] :
    \E s2 \in DOMAIN rl.qValues \ {s} :
        /\ rl.qValues[s][a] < 0
        /\ \E b \in DOMAIN rl.qValues[s2] : rl.qValues[s2][b] < 0
        /\ Abs(TargetGap(rl.qValues, s, a, -500, s2)) >= 50
        /\ rl.updateCounter >= 2

\* C23: the exploration rate of selectAction lies between 0.05 and 0.2 at
\* every time the run has reached, and it is not larger at the current time
\* than at any earlier time.
C23_ExplorationRate ==
    /\ effectiveExplorationRate(time) >= 500
    /\ effectiveExplorationRate(time) <= 2000
    /\ \A t \in 0..time :
          /\ effectiveExplorationRate(t) >= effectiveExplorationRate(time)
          /\ \A u \in {0, 49, 50, 199, 999} :
                 Explores(u, time) => Explores(u, t)

\* C23 witness: the controller has selected actions up to a time at which
\* the rate has come down to its floor of 0.05 and stays there
W_C23 ==
    /\ time > 375
    /\ rl.lastAction /= ""
    /\ effectiveExplorationRate(time) = 500
    /\ effectiveExplorationRate(0) = 2000
    /\ Explores(49, time) /\ ~Explores(50, time)

\* C24: after loadQTable() the in-memory Q-table equals the mapping written
\* by the last saveQTable(): the same state keys with the same stay and
\* switch values, whatever updates were made between the save and the load.
C24_SaveLoadRoundTrip ==
    [][loadQTable => Q' = JSONparse(localStorage.value)]_vars

\* C25: under the reinforcement-learning policy no state after a tick has one
\* axis green while the other axis is yellow: the receiving axis turns green
\* only once the releasing axis has finished its yellow and is red.
C25_RLNoGreenBesideYellow ==
    config.aiController = "reinforcement" =>
        \A i \in 1..Len(trafficLights) : \A k \in 1..Len(trafficLights) :
            (/\ trafficLights[i].state = "green"
             /\ trafficLights[k].state = "yellow")
            => (isNorthSouth(trafficLights[i].direction)
                    <=> isNorthSouth(trafficLights[k].direction))

\* C26: when switch_to_ns is applied while east-west is green (switch_to_ew
\* while north-south is green), the update leaves the releasing axis yellow or
\* red: it is not green again before the other axis has been green.
C26_SwitchTakesEffect ==
    [][time' > time =>
          /\ (/\ rl'.lastAction = "switch_to_ns"
              /\ ewGreen(trafficLights) /\ ~nsGreen(trafficLights))
             => ~ewGreen(trafficLights')
          /\ (/\ rl'.lastAction = "switch_to_ew"
              /\ nsGreen(trafficLights) /\ ~ewGreen(trafficLights))
             => ~nsGreen(trafficLights')]_vars

\* a draw of Math.random() that is above every exploration rate
ExploitDraw == 999

\* C27: when selectAction exploits, on the table and lights a controller
\* instance has reached and for any vehicles handed to the next update, it
\* returns an available action whose Q-value for the current state key is
\* maximal, and no action earlier in the order maintain, extend, switch has
\* that value as well.
C27_ExploitPicksFirstBest ==
    \A vs \in RLInstanceVehicles :
        LET stateKey == getCurrentState(trafficLights, vs)
            acts == getAvailableActions(trafficLights)
            q == InitQValues(rl.qValues, stateKey, acts)
            a == selectAction(q, stateKey, acts, time, ExploitDraw, 0)
        IN /\ ~Explores(ExploitDraw, time)
           /\ acts \in {<<"maintain_ns", "extend_ns", "switch_to_ew">>,
                         <<"maintain_ew", "extend_ew", "switch_to_ns">>}
           /\ \E j \in 1..Len(acts) :
                 /\ a = acts[j]
                 /\ \A k \in 1..Len(acts) :
                        QValue(q, stateKey, acts[k]) <= QValue(q, stateKey, a)
                 /\ \A k \in 1..(j - 1) :
                        QValue(q, stateKey, acts[k]) < QValue(q, stateKey, a)

\* C27 witness: the instance has learnt a negative value for maintain in the
\* state of the next update while extend and switch are level at 0; the
\* exploiting choice is extend
W_C27 ==
    LET stateKey == getCurrentState(trafficLights, <<>>)
        acts == getAvailableActions(trafficLights)
    IN /\ stateKey \in DOMAIN rl.qValues
       /\ QValue(rl.qValues, stateKey, acts[1]) < 0
       /\ QValue(rl.qValues, stateKey, acts[2]) = 0
       /\ QValue(rl.qValues, stateKey, acts[3]) = 0
       /\ selectAction(rl.qValues, stateKey, acts, time, ExploitDraw, 0) = acts[2]

\* C28: for one controller instance, after every update the replay buffer
\* holds at most 100 entries; an update that adds an entry to a buffer of 100
\* leaves the 99 newest of them followed by the new entry: the oldest is the
\* one dropped.
C28_ReplayBufferBounded ==
    [][time' > time =>
          /\ Len(rl'.stateHistory) <= 100
          /\ (Len(rl.stateHistory) = 100 /\ rl.lastAction /= "") =>
                 rl'.stateHistory
                   = Append(Tail(rl.stateHistory),
                            [state  |-> rl.lastStateKey,
                             action |-> rl.lastAction,
                             reward |-> calculateReward(statistics, vehicles')])]_vars

\* C28 witness: the buffer is full after more than 101 updates, and its
\* oldest entry is no longer the one of the first update
W_C28 ==
    /\ Len(rl.stateHistory) = 100
    /\ time > 505
    /\ rl.stateHistory[1].state[4] /= "short"

\* C29: for one AdaptiveController instance, after every update each axis's
\* history holds at most 10 samples, both histories have the same length, and
\* each is the tail of the previous history extended by the sample of this
\* update: what is dropped is dropped from the old end.
C29_HistoryBounded ==
    [][LET old == adaptive.trafficHistory
           new == adaptive'.trafficHistory
           density == statistics'.trafficDensity
           pushedNS == Append(old.ns, [count |-> density.north + density.south,
                                       timestamp |-> time])
           pushedEW == Append(old.ew, [count |-> density.east + density.west,
                                       timestamp |-> time])
       IN /\ Len(new.ns) <= 10
          /\ Len(new.ew) = Len(new.ns)
          /\ Len(new.ns) >= 1
          /\ new.ns = SubSeq(pushedNS, Len(pushedNS) - Len(new.ns) + 1, Len(pushedNS))
          /\ new.ew = SubSeq(pushedEW, Len(pushedEW) - Len(new.ew) + 1, Len(pushedEW))]_vars

\* C29 witness: ten samples taken at time 12 fill the history; the samples
\* taken at time 6, less than 10 s old, have been pushed out by them
W_C29 ==
    /\ time = 18
    /\ Len(adaptive.trafficHistory.ns) = 10
    /\ Len(adaptive.trafficHistory.ew) = 10
    /\ adaptive.trafficHistory.ns[1].timestamp = 12
    /\ adaptive.trafficHistory.ns[10].count > 0

\* C30: the switch decision of the adaptive policy uses
\* config.aiParams.adaptiveThreshold.  In an update of a controller in its
\* green phase, with the minimum green time elapsed, no rising trend and the
\* maximum wait not exceeded, the green axis is released exactly when the
\* demand of the other axis exceeds the demand of the green axis times the
\* configured threshold.
C30_ConfiguredThreshold ==
    [][time' > time =>
          LET deltaTime == time' - time
              density == statistics'.trafficDensity
              northSouthCount == density.north + density.south
              eastWestCount == density.east + density.west
              threshold == config.aiParams.adaptiveThreshold
              hist == adaptive'.trafficHistory
              steady == /\ adaptive.currentPhase = "green"
                        /\ adaptive.switchTimer + deltaTime >= adaptiveMinGreenTime
                        /\ adaptive.lastSwitchTime + deltaTime <= adaptiveMaxWaitTime
                        /\ ~TrendAboveHalf(hist.ns, Len(hist.ns))
                        /\ ~TrendAboveHalf(hist.ew, Len(hist.ns))
          IN steady =>
               /\ (ewGreen(trafficLights) /\ ~nsGreen(trafficLights)) =>
                      (ewYellow(trafficLights')
                          <=> 10 * northSouthCount > threshold * eastWestCount)
               /\ (nsGreen(trafficLights) /\ ~ewGreen(trafficLights)) =>
                      (nsYellow(trafficLights')
                          <=> 10 * eastWestCount > threshold * northSouthCount)]_vars

----------------------------------------------------------------------------
(* Motion of a vehicle in a tick *)

\* how far v has travelled from the spawn position of its direction and lane
TravelOf(v) ==
    LET p == SpawnPosition(v.direction, v.lane)
    IN AheadBy([x |-> p.x, y |-> p.y, direction |-> v.direction], v)

\* v and w agree on the coordinate across v's direction of travel
SameCrossAxis(v, w) ==
    IF v.direction \in {"north", "south"} THEN w.x = v.x ELSE w.y = v.y

\* C31: a vehicle that is not gated in a tick (not stopped by a red light, no
\* vehicle of its lane closer ahead than its safe distance) advances by exactly
\* speed x deltaTime x simulationSpeed in its direction of travel, with speed
\* 40 for a car and 30 for a truck; a vehicle that is gone after the tick has
\* advanced out of the world.  No tick changes the cross-axis coordinate, the
\* lane, the direction, the type, the speed or the id of a vehicle, and no
\* vehicle moves backwards.
C31_Advance ==
    [][time' > time =>
          \A i \in 1..Len(vehicles) :
              LET v == vehicles[i]
                  reach == (v.speed * (time' - time) * config.simulationSpeed) \div 10
                  free == /\ ~StopsAtRed(v, trafficLights')
                          /\ ~isVehicleAhead(v, vehicles)
              IN /\ v.speed = (IF v.type = "car" THEN 40 ELSE 30)
                 /\ Cardinality(WithId(vehicles', v.id)) <= 1
                 /\ \A w \in WithId(vehicles', v.id) :
                        /\ w.type = v.type
                        /\ w.direction = v.direction
                        /\ w.lane = v.lane
                        /\ w.speed = v.speed
                        /\ SameCrossAxis(v, w)
                        /\ AheadBy(v, w) \in {0, reach}
                        /\ free => AheadBy(v, w) = reach
                 /\ WithId(vehicles', v.id) = {} =>
                        /\ ~StopsAtRed(v, trafficLights')
                        /\ ~InWorld(Moved(v, reach))]_vars

\* C31 witness: a car that has advanced 40 pixels and a truck that has
\* advanced 60 pixels from their spawn positions
W_C31 ==
    \E i \in 1..Len(vehicles) : \E k \in 1..Len(vehicles) :
        /\ vehicles[i].type = "car"   /\ TravelOf(vehicles[i]) = 40
        /\ vehicles[k].type = "truck" /\ TravelOf(vehicles[k]) = 60

\* v and w are at the same position
SamePosition(v, w) == w.x = v.x /\ w.y = v.y

\* C32: in a tick with deltaTime x simulationSpeed > 0, each vehicle present
\* before the tick and still present after it does exactly one of two
\* things: it keeps its position and its waitTime grows by deltaTime x
\* simulationSpeed, being stopped by a red light or having a vehicle of its
\* lane close ahead; or its position changes and its waitTime is unchanged.
C32_WaitOrMove ==
    [][(time' > time /\ config.simulationSpeed > 0) =>
          \A i \in 1..Len(vehicles) :
              LET v == vehicles[i]
                  adjustedDelta == 100 * (time' - time) * config.simulationSpeed
              IN \A w \in WithId(vehicles', v.id) :
                     \/ /\ SamePosition(v, w)
                        /\ w.waitTime = v.waitTime + adjustedDelta
                        /\ \/ StopsAtRed(v, trafficLights')
                           \/ isVehicleAhead(v, vehicles)
                           \/ isVehicleAhead(v, vehicles')
                     \/ /\ ~SamePosition(v, w)
                        /\ w.waitTime = v.waitTime]_vars

\* C32 witness: the first vehicle has waited at the red light and has moved
\* on with its wait kept; the truck behind it has waited 30 pixels behind the
\* stop line and has then moved up to it
W_C32 ==
    /\ Len(vehicles) = 2
    /\ vehicles[1].waitTime > 0 /\ vehicles[1].x > 240
    /\ vehicles[2].type = "truck"
    /\ vehicles[2].waitTime > 0 /\ vehicles[2].x = 240

----------------------------------------------------------------------------
(* Spawning *)

\* C33: a tick spawns only when its draw u in [0, 1) is below spawnRate x
\* deltaTime x simulationSpeed.  No draw is below 0, so a tick whose spawn
\* chance is 0 (spawnRate = 0 in particular) appends no vehicle and leaves
\* statistics.totalVehicles as it is, whatever the draw, u = 0 included.
C33_NoSpawnAtChanceZero ==
    [][(config.spawnRate * (time' - time) * config.simulationSpeed = 0)
       => /\ Entered(vehicles, vehicles') = {}
          /\ statistics'.totalVehicles = statistics.totalVehicles]_vars

----------------------------------------------------------------------------
(* Light transitions *)

\* C34: under every policy, a light that is yellow at the end of one tick is
\* yellow or red at the end of the next tick: no light goes from yellow back
\* to green.
C34_NoYellowToGreen ==
    [][time' > time =>
          \A i \in 1..Len(trafficLights) :
              trafficLights[i].state = "yellow"
                  => trafficLights'[i].state \in {"yellow", "red"}]_vars

\* the light of direction d
LightOf(lights, d) ==
    CHOOSE l \in {lights[i] : i \in 1..Len(lights)} : l.direction = d

\* C35: axis coherence.  In every state reached by ticks under any policy,
\* with controller changes between the ticks, the north and south lights
\* have the same state and the same timer, and so have the east and west
\* lights.
C35_AxisCoherence ==
    /\ LightOf(trafficLights, "north").state = LightOf(trafficLights, "south").state
    /\ LightOf(trafficLights, "north").timer = LightOf(trafficLights, "south").timer
    /\ LightOf(trafficLights, "east").state = LightOf(trafficLights, "west").state
    /\ LightOf(trafficLights, "east").timer = LightOf(trafficLights, "west").timer

\* C35 witness: after a change of controller, one axis is yellow with a
\* running timer and the other axis has been turned green with its timer reset
W_C35 ==
    /\ config.aiController /= "fixed"
    /\ \E d \in {"north", "south", "east", "west"} :
           /\ LightOf(trafficLights, d).state = "yellow"
           /\ LightOf(trafficLights, d).timer > 0
    /\ \E d \in {"north", "south", "east", "west"} :
           /\ LightOf(trafficLights, d).state = "green"
           /\ LightOf(trafficLights, d).timer = 0

----------------------------------------------------------------------------
(* Order of the vehicles on a lane *)

\* v and o travel in the same direction on the same lane
SameLane(v, o) == o.direction = v.direction /\ o.lane = v.lane

\* C36: car-following keeps the vehicles of a lane in order and apart.  After
\* a tick no two distinct vehicles of one direction and lane are at the same
\* position, and no vehicle is ahead of a vehicle that was ahead of it in its
\* lane when the tick began (no overtaking).
C36_OrderKept ==
    [][time' > time =>
          /\ \A i \in 1..Len(vehicles') : \A k \in 1..Len(vehicles') :
                 (i /= k /\ SameLane(vehicles'[i], vehicles'[k]))
                     => ~SamePosition(vehicles'[i], vehicles'[k])
          /\ \A i \in 1..Len(vehicles) : \A k \in 1..Len(vehicles) :
                 (/\ SameLane(vehicles[i], vehicles[k])
                  /\ AheadBy(vehicles[i], vehicles[k]) > 0)
                 => \A w \in WithId(vehicles', vehicles[i].id) :
                    \A p \in WithId(vehicles', vehicles[k].id) :
                        AheadBy(w, p) >= 0]_vars

\* the sequence s in the opposite order
Reversed(s) == [i \in 1..Len(s) |-> s[Len(s) + 1 - i]]

\* the elements of the sequence s
Elements(s) == {s[i] : i \in 1..Len(s)}

\* C37: the vehicle update is simultaneous.  Each gating decision of a tick is
\* taken against the positions the vehicles had when the tick began, so the
\* vehicles updateVehicles returns, with their positions and wait times, are
\* the same when the list is handed over in the opposite order.
C37_OrderIndependent ==
    [][time' > time =>
          Elements(updateVehicles(Reversed(vehicles), trafficLights',
                                  time' - time, config.simulationSpeed))
          = Elements(updateVehicles(vehicles, trafficLights',
                                    time' - time, config.simulationSpeed))]_vars

----------------------------------------------------------------------------
(* Spawn accounting *)

\* C38: statistics.totalVehicles is at least the number of vehicles present;
\* it never decreases; a tick raises it by at most 1, and by exactly the
\* number of vehicles the tick appended.
C38_SpawnAccounting ==
    [][/\ statistics'.totalVehicles >= Len(vehicles')
       /\ statistics'.totalVehicles >= statistics.totalVehicles
       /\ statistics'.totalVehicles - statistics.totalVehicles <= 1
       /\ statistics'.totalVehicles - statistics.totalVehicles
              = Cardinality(Entered(vehicles, vehicles'))]_vars

\* C38 witness: the one vehicle spawned has left the world, the count of
\* spawned vehicles stays at 1 on the empty road
W_C38 == statistics.totalVehicles = 1 /\ vehicles = <<>>

----------------------------------------------------------------------------
(* Progress under the fixed policy *)

\* the lights are in the same phase of the fixed cycle in before and after
SamePhase(before, after) ==
    \A i \in 1..Len(before) :
        /\ after[i].state = before[i].state
        /\ after[i].timer % ((greenDuration + yellowDuration) * 2)
               = before[i].timer % ((greenDuration + yellowDuration) * 2)

\* C39: no vehicle is stuck forever under the fixed policy: every spawned
\* vehicle is eventually removed.  In finite form: no tick with a positive
\* frame time holds a vehicle at a red light and leaves the lights in the
\* phase of the cycle they were in before it.  (Such a tick can be repeated
\* for ever: the schedule depends on the timers modulo the cycle only, so
\* every repetition finds the same red light and the vehicle never moves.)
C39_NoVehicleStuck ==
    [][(time' > time /\ config.aiController = "fixed") =>
          ~ /\ SamePhase(trafficLights, trafficLights')
            /\ \E i \in 1..Len(vehicles) :
                   /\ StopsAtRed(vehicles[i], trafficLights')
                   /\ \E w \in WithId(vehicles', vehicles[i].id) :
                          SamePosition(vehicles[i], w)]_vars

====
